---- MODULE Spec2Model ----
(***************************************************************************)
(* Model of the reminder scheduling and overlay lifecycle engine of        *)
(* drink_reminder.py (ReminderOverlay, SettingsWindow, TrayController and  *)
(* ReminderApplication).                                                   *)
(*                                                                         *)
(* Objects are records, methods are operators from the object (and the     *)
(* shared AppConfig, the current time and the random draw) to the object   *)
(* after the call, so that one callback of the Qt event loop is one        *)
(* action.  Time is in milliseconds.  A QTimer is its interval and the set *)
(* of its pending timeouts; a QPropertyAnimation is a record in the set of *)
(* running animations of its widget.                                       *)
(***************************************************************************)
EXTENDS Integers, FiniteSets, Sequences, TLC

VARIABLES
    now,        \* QDateTime.currentDateTime(), ms since application start
    config,     \* the AppConfig object shared by every component
    ui,         \* values held by the widgets of the settings window
    overlay,    \* ReminderApplication.overlay (preview = FALSE)
    preview,    \* SettingsWindow.preview (OverlayPreview, preview = TRUE)
    launch,     \* pending QTimer.singleShot(preview_delay_ms, show_overlay)
    inputs,     \* number of user inputs so far
    hist        \* history: the last callback, the last arming and the last show

vars == <<now, config, ui, overlay, preview, launch, inputs, hist>>

\* ---------------------------------------------------------------------
\* Bounds of the exploration
\* ---------------------------------------------------------------------

\* the exploration ends at this time
MaxTime == 3000

\* number of user inputs (mouse press, tray command, settings) in one run
MaxInputs == 2

\* ---------------------------------------------------------------------
\* Arithmetic helpers (Python builtins)
\* ---------------------------------------------------------------------

max(a, b) == IF a >= b THEN a ELSE b

min(a, b) == IF a <= b THEN a ELSE b

\* Python None
None == [none |-> TRUE]

\* " ".join(parts)
RECURSIVE join(_)
join(parts) ==
    IF parts = <<>> THEN ""
    ELSE IF Len(parts) = 1 THEN parts[1]
    ELSE parts[1] \o " " \o join(Tail(parts))

\* ---------------------------------------------------------------------
\* Texts of durations
\* ---------------------------------------------------------------------

\* variant of format_interval: a zero component is rendered too
format_interval_with_zeros(milliseconds) ==
    LET minutes_total == max(0, milliseconds \div 60000)
        hours == minutes_total \div 60
        minutes == minutes_total % 60
    IN IF hours = 0 /\ minutes = 0 THEN "less than a minute"
       ELSE join(<<ToString(hours) \o " hour" \o (IF hours # 1 THEN "s" ELSE ""),
                   ToString(minutes) \o " minute" \o (IF minutes # 1 THEN "s" ELSE "")>>)

format_interval(milliseconds) ==
    LET minutes_total == max(0, milliseconds \div 60000)
        hours == minutes_total \div 60
        minutes == minutes_total % 60
        parts == (IF hours # 0
                  THEN <<ToString(hours) \o " hour" \o (IF hours # 1 THEN "s" ELSE "")>>
                  ELSE <<>>)
                 \o (IF minutes # 0
                     THEN <<ToString(minutes) \o " minute" \o (IF minutes # 1 THEN "s" ELSE "")>>
                     ELSE <<>>)
    IN IF parts = <<>> THEN "less than a minute" ELSE join(parts)

\* variant of format_short_duration: the seconds are always rendered
format_short_duration_with_seconds(milliseconds) ==
    IF milliseconds <= 0 THEN "now"
    ELSE LET seconds_total == milliseconds \div 1000
             hours == seconds_total \div 3600
             remainder == seconds_total % 3600
             minutes == remainder \div 60
             seconds == remainder % 60
         IN join((IF hours # 0 THEN <<ToString(hours) \o "h">> ELSE <<>>)
                 \o (IF minutes # 0 \/ hours # 0 THEN <<ToString(minutes) \o "m">> ELSE <<>>)
                 \o <<ToString(seconds) \o "s">>)

format_short_duration(milliseconds) ==
    IF milliseconds <= 0 THEN "now"
    ELSE LET seconds_total == milliseconds \div 1000
             hours == seconds_total \div 3600
             remainder == seconds_total % 3600
             minutes == remainder \div 60
             seconds == remainder % 60
         IN join((IF hours # 0 THEN <<ToString(hours) \o "h">> ELSE <<>>)
                 \o (IF minutes # 0 \/ hours # 0 THEN <<ToString(minutes) \o "m">> ELSE <<>>)
                 \o (IF hours = 0 THEN <<ToString(seconds) \o "s">> ELSE <<>>))

\* ---------------------------------------------------------------------
\* QTimer: the interval and the set of pending timeouts.  start() on a
\* running timer stops it first; a single-shot timer is inactive after
\* its timeout, a repeating one is due again one interval later.
\* ---------------------------------------------------------------------

QTimer(single) == [singleShot |-> single, interval |-> 0, pending |-> {}]

QTimer_isActive(t) == t.pending # {}

QTimer_stop(t) == [t EXCEPT !.pending = {}]

\* variant of QTimer_start: the pending timeout stays
QTimer_start_beside_pending(t, msec, time) ==
    [t EXCEPT !.interval = msec, !.pending = @ \cup {time + msec}]

QTimer_start(t, msec, time) ==
    [t EXCEPT !.interval = msec, !.pending = {time + msec}]

QTimer_setInterval(t, msec, time) ==
    [t EXCEPT !.interval = msec,
              !.pending = IF t.pending = {} THEN {} ELSE {time + msec}]

\* the timer after its timeout due at d was delivered
QTimer_timeout(t, d) ==
    [t EXCEPT !.pending = IF t.singleShot THEN t.pending \ {d}
                          ELSE (t.pending \ {d}) \cup {d + t.interval}]

\* ---------------------------------------------------------------------
\* AppConfig: the fields the engine reads.  overlay_opacity is in
\* percent.  asset_directory is STORAGE_ASSETS_DIR in every AppConfig
\* (from_dict and load_config_from_disk set it, nothing changes it).
\* ---------------------------------------------------------------------

AppConfig ==
    [reminder_interval_ms  |-> 45 * 60 * 1000,
     auto_hide_ms          |-> 15 * 1000,
     animation_interval_ms |-> 200,
     show_preview_on_launch |-> TRUE,
     preview_delay_ms      |-> 2000,
     position              |-> "bottom_right",
     margin_x              |-> 16,
     margin_y              |-> 16,
     random_offset_ms      |-> 0,
     overlay_width         |-> 360,
     overlay_height        |-> 180,
     overlay_opacity       |-> 100,
     countdown_enabled     |-> TRUE,
     animation_enabled     |-> TRUE,
     entry_animation       |-> "fade",
     monitor_id            |-> "auto"]

\* ---------------------------------------------------------------------
\* Values of json.loads.  t is the Python type, i the number (an int, a
\* bool as 0 or 1, a float in hundredths, the number a str is the literal
\* of), s is str(value), and lit tells "inf" and "nan" among the floats
\* and the "int" and "float" literals among the strs.
\* ---------------------------------------------------------------------

Val(t, i, s, lit) == [t |-> t, i |-> i, s |-> s, lit |-> lit]

JInt(n) == Val("int", n, ToString(n), "")

JBool(b) == Val("bool", IF b THEN 1 ELSE 0, IF b THEN "True" ELSE "False", "")

JStr(text) == Val("str", 0, text, "")

\* a dict of json.loads, and a value that is no dict
JDict(items) == [dict |-> TRUE, items |-> items]

NotADict == [dict |-> FALSE, items |-> [k \in {} |-> JInt(0)]]

\* what a conversion returns, or the exception it raises
Returns(v) == [exc |-> "", v |-> v]

Raises(exc) == [exc |-> exc, v |-> 0]

\* int(value)
py_int(val) ==
    CASE val.t \in {"int", "bool"} -> Returns(val.i)
      [] val.t = "float" /\ val.lit = "inf" -> Raises("OverflowError")
      [] val.t = "float" /\ val.lit = "nan" -> Raises("ValueError")
      [] val.t = "float" /\ val.lit = "" ->
             Returns(IF val.i >= 0 THEN val.i \div 100 ELSE -((-val.i) \div 100))
      [] val.t = "str" /\ val.lit = "int" -> Returns(val.i)
      [] val.t = "str" /\ val.lit # "int" -> Raises("ValueError")
      [] OTHER -> Raises("TypeError")

\* float(value), in hundredths, of a value other than inf and nan
py_float(val) ==
    CASE val.t \in {"int", "bool"} -> Returns(val.i * 100)
      [] val.t = "float" /\ val.lit = "" -> Returns(val.i)
      [] val.t = "str" /\ val.lit = "int" -> Returns(val.i * 100)
      [] val.t = "str" /\ val.lit = "float" -> Returns(val.i)
      [] val.t = "str" /\ val.lit = "" -> Raises("ValueError")
      [] val.t \in {"null", "list"} -> Raises("TypeError")

\* bool(value)
py_bool(val) ==
    CASE val.t \in {"int", "bool"} -> val.i # 0
      [] val.t = "float" -> val.lit # "" \/ val.i # 0
      [] val.t = "str" -> val.s # ""
      [] val.t = "null" -> FALSE
      [] val.t = "list" -> TRUE

\* str(value)
py_str(val) == val.s

\* data.get(key, default)
get(data, key, default) ==
    IF key \in DOMAIN data.items THEN data.items[key] ELSE default

\* get_int of from_dict: TypeError and ValueError give the default
get_int(data, key, default) ==
    LET r == py_int(get(data, key, JInt(default)))
    IN IF r.exc \in {"TypeError", "ValueError"} THEN Returns(default) ELSE r

get_float(data, key, default) ==
    LET r == py_float(get(data, key, Val("float", default, "", "")))
    IN IF r.exc \in {"TypeError", "ValueError"} THEN Returns(default) ELSE r

\* the fields from_dict reads with get_int
IntFields ==
    {"reminder_interval_ms", "auto_hide_ms", "animation_interval_ms", "preview_delay_ms",
     "margin_x", "margin_y", "random_offset_ms", "overlay_width", "overlay_height"}

\* AppConfig.from_dict: the configuration, or the exception that leaves it
from_dict(data) ==
    IF ~data.dict THEN [exc |-> "", config |-> AppConfig]
    ELSE LET ints == [k \in IntFields |-> get_int(data, k, AppConfig[k])]
         IN IF \E k \in IntFields : ints[k].exc # ""
            THEN [exc |-> "OverflowError", config |-> AppConfig]
            ELSE [exc |-> "",
                  config |->
                    [reminder_interval_ms  |-> ints["reminder_interval_ms"].v,
                     auto_hide_ms          |-> ints["auto_hide_ms"].v,
                     animation_interval_ms |-> ints["animation_interval_ms"].v,
                     show_preview_on_launch |->
                         py_bool(get(data, "show_preview_on_launch",
                                     JBool(AppConfig.show_preview_on_launch))),
                     preview_delay_ms      |-> ints["preview_delay_ms"].v,
                     position              |-> py_str(get(data, "position",
                                                          JStr(AppConfig.position))),
                     margin_x              |-> ints["margin_x"].v,
                     margin_y              |-> ints["margin_y"].v,
                     random_offset_ms      |-> ints["random_offset_ms"].v,
                     overlay_width         |-> ints["overlay_width"].v,
                     overlay_height        |-> ints["overlay_height"].v,
                     overlay_opacity       |-> get_float(data, "overlay_opacity",
                                                         AppConfig.overlay_opacity).v,
                     countdown_enabled     |->
                         py_bool(get(data, "countdown_enabled",
                                     JBool(AppConfig.countdown_enabled))),
                     animation_enabled     |->
                         py_bool(get(data, "animation_enabled",
                                     JBool(AppConfig.animation_enabled))),
                     entry_animation       |-> py_str(get(data, "entry_animation",
                                                          JStr(AppConfig.entry_animation))),
                     monitor_id            |-> py_str(get(data, "monitor_id",
                                                          JStr(AppConfig.monitor_id)))]]

\* QColor(r, g, b, a)
QColor(r, g, b, a) == [r |-> r, g |-> g, b |-> b, a |-> a]

\* the exception of the first conversion, in the order r, g, b, a, that raises
first_raised(ch) ==
    IF ch["r"].exc # "" THEN ch["r"].exc
    ELSE IF ch["g"].exc # "" THEN ch["g"].exc
    ELSE IF ch["b"].exc # "" THEN ch["b"].exc
    ELSE ch["a"].exc

\* color_from_dict: the colour, or the exception that leaves it
color_from_dict(data, fallback) ==
    IF ~data.dict THEN [exc |-> "", color |-> fallback]
    ELSE LET ch == [k \in {"r", "g", "b", "a"} |-> py_int(get(data, k, JInt(fallback[k])))]
         IN IF first_raised(ch) \in {"TypeError", "ValueError"}
            THEN [exc |-> "", color |-> fallback]
            ELSE IF first_raised(ch) # ""
            THEN [exc |-> first_raised(ch), color |-> fallback]
            ELSE IF \E k \in {"r", "g", "b", "a"} : ch[k].v < 0 \/ ch[k].v > 255
            THEN [exc |-> "", color |-> fallback]
            ELSE [exc |-> "", color |-> QColor(ch["r"].v, ch["g"].v, ch["b"].v, ch["a"].v)]

\* random.randint(0, ceiling): the draws the exploration takes
randint(ceiling) == {0, ceiling \div 2, ceiling}

\* ---------------------------------------------------------------------
\* Screens (QApplication.screens(), availableGeometry) and assets on
\* disk: the environment of one run.
\* ---------------------------------------------------------------------

QRect(x, y, w, h) == [x |-> x, y |-> y, w |-> w, h |-> h]

primaryScreen == [name |-> "DISPLAY1", geo |-> QRect(0, 0, 1920, 1080)]

\* a second monitor, to the left of the primary one
secondScreen == [name |-> "DISPLAY2", geo |-> QRect(-1280, 200, 1280, 720)]

screens == {primaryScreen, secondScreen}

\* what QFontMetrics gives for the title and the message
text_advance == 120

\* ---------------------------------------------------------------------
\* QPropertyAnimation: value of the animated property at a time.
\* Progress and eased progress are in 1/1000.
\* ---------------------------------------------------------------------

progress(a, time) ==
    IF a.duration <= 0 THEN 1000
    ELSE max(0, min(1000, (1000 * (time - a.start)) \div a.duration))

QEasingCurve(curve, p) ==
    CASE curve = "OutCubic" -> 1000 - (((1000 - p) * (1000 - p) * (1000 - p)) \div 1000000)
      [] curve = "InQuad"   -> (p * p) \div 1000
      [] curve = "InCubic"  -> (p * p * p) \div 1000000
      [] curve = "InBack"   -> (((p * p) \div 1000) * ((2702 * p - 1702000) \div 1000)) \div 1000

interpolate(from, to, e) == from + (((to - from) * e) \div 1000)

interpolateRect(r0, r1, e) ==
    QRect(interpolate(r0.x, r1.x, e), interpolate(r0.y, r1.y, e),
          interpolate(r0.w, r1.w, e), interpolate(r0.h, r1.h, e))

\* QRect.moveTop, QRect.center / moveCenter (right = x + w - 1)
moveTop(r, y) == [r EXCEPT !.y = y]

moveCenter(r, c) ==
    [r EXCEPT !.x = ((c.x + (c.x + c.w - 1)) \div 2) - ((r.w - 1) \div 2),
              !.y = ((c.y + (c.y + c.h - 1)) \div 2) - ((r.h - 1) \div 2)]

\* the widget after one frame of its running animations at a time
animation_frame(self, time) ==
    IF self.running = {} THEN self
    ELSE LET a == CHOOSE r \in self.running : TRUE
             e == QEasingCurve(a.curve, progress(a, time))
         IN IF a.prop = "windowOpacity"
            THEN [self EXCEPT !.windowOpacity = interpolate(a.o0, a.o1, e)]
            ELSE [self EXCEPT !.geometry = interpolateRect(a.r0, a.r1, e)]

\* QAbstractAnimation.stop(): the animation no longer runs and its
\* finished signal is not emitted
QAbstractAnimation_stop(self, a) == [self EXCEPT !.running = self.running \ {a}]

QAbstractAnimation_start(self, a) == [self EXCEPT !.running = self.running \cup {a}]

endTime(a) == a.start + max(0, a.duration)

\* ---------------------------------------------------------------------
\* OverlayContent
\* ---------------------------------------------------------------------

\* OverlayContent.apply_config: the fixed size of the content widget
content_size(cfg) ==
    LET padding == 24 * 2
        spacing == 20
        available_height == max(80, cfg.overlay_height - padding)
        image_size == max(64, min(220, available_height))
        text_block_width == max(text_advance, 160)
        total_width == padding + image_size + spacing + text_block_width
    IN [w |-> max(cfg.overlay_width, total_width), h |-> cfg.overlay_height]

\* OverlayContent.set_countdown_text
set_countdown_text(self, cfg, text) ==
    [self EXCEPT !.countdown_label = IF ~cfg.countdown_enabled THEN [text |-> "", remaining |-> 0]
                                     ELSE text]

\* OverlayContent.set_static_pixmap
set_static_pixmap(self, kind, index) ==
    [self EXCEPT !.picture = [kind |-> kind, index |-> index]]

\* OverlayContent.set_movie (with a movie): shows it and starts playback
set_movie(self) ==
    [self EXCEPT !.picture = [kind |-> "movie", index |-> 0], !.movie_running = TRUE]

\* ---------------------------------------------------------------------
\* ReminderOverlay
\* ---------------------------------------------------------------------

\* the frames load_animation_assets appends from frame<index>.png on: a
\* missing frame1.png is skipped, a later missing file ends the sequence, a
\* file that gives a null pixmap is left out
RECURSIVE load_frames(_, _)
load_frames(files, index) ==
    IF index > 24 THEN 0
    ELSE IF index > Len(files) \/ files[index] = "missing"
    THEN IF index = 1 THEN load_frames(files, 2) ELSE 0
    ELSE (IF files[index] = "valid" THEN 1 ELSE 0) + load_frames(files, index + 1)

\* variant of load_animation_assets: a movie is looked for although frames
\* were loaded
load_animation_assets_with_movie(disk) ==
    [frames |-> IF disk.dir THEN load_frames(disk.frames, 1) ELSE 0,
     movie  |-> \/ disk.dir /\ \E c \in 1..3 : disk.movies[c] = "valid"
                \/ disk.default_gif = "valid"]

\* load_animation_assets: the number of frames and whether a movie is
\* returned.  disk: whether the asset directory exists, its frame files,
\* its animation.gif, .webp and .apng, and the bundled bottle gif
load_animation_assets(disk) ==
    LET frames == IF disk.dir THEN load_frames(disk.frames, 1) ELSE 0
        fallback_movie == disk.dir /\ frames = 0 /\ \E c \in 1..3 : disk.movies[c] = "valid"
    IN [frames |-> frames,
        movie  |-> \/ fallback_movie
                   \/ frames = 0 /\ ~fallback_movie /\ disk.default_gif = "valid"]

\* load_assets, on what load_animation_assets returned
load_assets(self, assets) ==
    LET o == [self EXCEPT !.frame_pixmaps = assets.frames, !.fallback_movie = assets.movie]
    IN IF o.frame_pixmaps > 0 THEN set_static_pixmap([o EXCEPT !.animation_index = 0], "frame", 0)
       ELSE IF o.fallback_movie THEN set_movie(o)
       ELSE set_static_pixmap(o, "fallback", 0)

\* variant of _target_screen: the monitor under the pointer comes first
target_screen_pointer_first(self, cfg, cursor) ==
    IF self.preview THEN primaryScreen
    ELSE IF cursor # None THEN cursor
    ELSE IF cfg.monitor_id # "auto" /\ \E sc \in screens : sc.name = cfg.monitor_id
         THEN CHOOSE sc \in screens : sc.name = cfg.monitor_id
    ELSE primaryScreen

\* _target_screen, cursor being QApplication.screenAt(QCursor.pos())
target_screen(self, cfg, cursor) ==
    IF self.preview THEN primaryScreen
    ELSE IF cfg.monitor_id # "auto" /\ \E sc \in screens : sc.name = cfg.monitor_id
         THEN CHOOSE sc \in screens : sc.name = cfg.monitor_id
    ELSE IF cursor # None THEN cursor
    ELSE primaryScreen

right_anchored(position) == position \in {"bottom_right", "top_right"}

bottom_anchored(position) == position \in {"bottom_right", "bottom_left"}

\* variants of resolve: without the final clamp, and with the margins
\* left out
resolve_unclamped(geo, width, height, position, cfg_margin_x, cfg_margin_y) ==
    LET margin_x == max(0, cfg_margin_x)
        margin_y == max(0, cfg_margin_y)
    IN [x |-> IF right_anchored(position) THEN geo.x + geo.w - width - margin_x
              ELSE geo.x + margin_x,
        y |-> IF bottom_anchored(position) THEN geo.y + geo.h - height - margin_y
              ELSE geo.y + margin_y]

resolve_edge_aligned(geo, width, height, position, cfg_margin_x, cfg_margin_y) ==
    LET x0 == IF right_anchored(position) THEN geo.x + geo.w - width ELSE geo.x
        y0 == IF bottom_anchored(position) THEN geo.y + geo.h - height ELSE geo.y
    IN [x |-> max(geo.x, min(x0, geo.x + geo.w - width)),
        y |-> max(geo.y, min(y0, geo.y + geo.h - height))]

\* variant of resolve: the clamp takes the lower bound first, the upper last
resolve_upper_bound_last(geo, width, height, position, cfg_margin_x, cfg_margin_y) ==
    LET margin_x == max(0, cfg_margin_x)
        margin_y == max(0, cfg_margin_y)
        x0 == IF right_anchored(position) THEN geo.x + geo.w - width - margin_x
              ELSE geo.x + margin_x
        y0 == IF bottom_anchored(position) THEN geo.y + geo.h - height - margin_y
              ELSE geo.y + margin_y
    IN [x |-> min(max(geo.x, x0), geo.x + geo.w - width),
        y |-> min(max(geo.y, y0), geo.y + geo.h - height)]

\* the coordinates position_overlay moves a widget of the given size to
resolve(geo, width, height, position, cfg_margin_x, cfg_margin_y) ==
    LET margin_x == max(0, cfg_margin_x)
        margin_y == max(0, cfg_margin_y)
        x0 == IF right_anchored(position) THEN geo.x + geo.w - width - margin_x
              ELSE geo.x + margin_x
        y0 == IF bottom_anchored(position) THEN geo.y + geo.h - height - margin_y
              ELSE geo.y + margin_y
    IN [x |-> max(geo.x, min(x0, geo.x + geo.w - width)),
        y |-> max(geo.y, min(y0, geo.y + geo.h - height))]

position_overlay(self, cfg, cursor) ==
    IF self.preview THEN self
    ELSE LET geo == target_screen(self, cfg, cursor).geo
             p == resolve(geo, self.geometry.w, self.geometry.h,
                          cfg.position, cfg.margin_x, cfg.margin_y)
         IN [self EXCEPT !.geometry.x = p.x, !.geometry.y = p.y]

update_countdown(self, cfg, time) ==
    IF self.preview
    THEN set_countdown_text(self, cfg, [text |-> "Next reminder in preview", remaining |-> 0])
    ELSE LET remaining_ms == max(0, self.next_reminder - time)
         IN set_countdown_text(self, cfg, [text |-> "remaining", remaining |-> remaining_ms])

\* if not self.preview: self.position_overlay()
position_unless_preview(self, cfg, cursor) ==
    IF ~self.preview THEN position_overlay(self, cfg, cursor) ELSE self

\* apply_config: the content's size and the window opacity
apply_config_size(self, cfg) ==
    LET size == content_size(cfg)
    IN [self EXCEPT !.windowOpacity = cfg.overlay_opacity,
                    !.geometry.w = size.w, !.geometry.h = size.h]

\* variant of apply_config_timer: the configured period is taken as it is
apply_config_timer_unfloored(self, cfg, time) ==
    LET t1 == QTimer_setInterval(self.animation_timer, cfg.animation_interval_ms, time)
    IN [self EXCEPT !.animation_timer =
            IF cfg.animation_enabled /\ (self.frame_pixmaps > 0 \/ self.fallback_movie)
            THEN IF ~QTimer_isActive(t1) THEN QTimer_start(t1, t1.interval, time) ELSE t1
            ELSE QTimer_stop(t1)]

\* apply_config: the sprite timer's interval, and whether it runs
apply_config_timer(self, cfg, time) ==
    LET t1 == QTimer_setInterval(self.animation_timer,
                                 max(10, cfg.animation_interval_ms), time)
    IN [self EXCEPT !.animation_timer =
            IF cfg.animation_enabled /\ (self.frame_pixmaps > 0 \/ self.fallback_movie)
            THEN IF ~QTimer_isActive(t1) THEN QTimer_start(t1, t1.interval, time) ELSE t1
            ELSE QTimer_stop(t1)]

\* variant of apply_config: a shown overlay has its auto-hide timer restarted
apply_config_restarting_auto_hide(self, cfg, time, cursor) ==
    LET o == apply_config_timer(update_countdown(position_unless_preview(
                 apply_config_size(self, cfg), cfg, cursor), cfg, time), cfg, time)
    IN IF ~o.preview /\ o.visible
       THEN [o EXCEPT !.auto_hide_timer = QTimer_start(@, cfg.auto_hide_ms, time)]
       ELSE o

apply_config(self, cfg, time, cursor) ==
    LET o1 == apply_config_size(self, cfg)
        o2 == position_unless_preview(o1, cfg, cursor)
        o3 == update_countdown(o2, cfg, time)
    IN apply_config_timer(o3, cfg, time)

\* variants of next_interval_ms: without the floor, with the draw added
\* twice, and with the floor taken before the draw is added
next_interval_ms_unfloored(cfg, draw) ==
    IF cfg.random_offset_ms > 0 THEN cfg.reminder_interval_ms + draw
    ELSE cfg.reminder_interval_ms

next_interval_ms_twice(cfg, draw) ==
    IF cfg.random_offset_ms > 0 THEN max(1000, cfg.reminder_interval_ms + draw + draw)
    ELSE max(1000, cfg.reminder_interval_ms)

next_interval_ms_floor_first(cfg, draw) ==
    IF cfg.random_offset_ms > 0 THEN max(1000, cfg.reminder_interval_ms) + draw
    ELSE max(1000, cfg.reminder_interval_ms)

\* variant of next_interval_ms: the floor is 0
next_interval_ms_floor_zero(cfg, draw) ==
    IF cfg.random_offset_ms > 0 THEN max(0, cfg.reminder_interval_ms + draw)
    ELSE max(0, cfg.reminder_interval_ms)

\* the interval schedule_next_reminder arms the reminder timer with
next_interval_ms(cfg, draw) ==
    LET interval_ms == IF cfg.random_offset_ms > 0
                       THEN cfg.reminder_interval_ms + draw
                       ELSE cfg.reminder_interval_ms
    IN max(1000, interval_ms)

\* variant of schedule_next_reminder: next_reminder is set as __init__
\* sets it, from the configured interval
schedule_next_reminder_from_config(self, cfg, time, draw) ==
    IF self.preview \/ self.reminder_timer = None THEN self
    ELSE LET o1 == [self EXCEPT !.next_reminder = time + cfg.reminder_interval_ms,
                                !.reminder_timer =
                                    QTimer_start(@, next_interval_ms(cfg, draw), time)]
         IN update_countdown(o1, cfg, time)

schedule_next_reminder(self, cfg, time, draw) ==
    IF self.preview \/ self.reminder_timer = None THEN self
    ELSE LET interval_ms == next_interval_ms(cfg, draw)
             o1 == [self EXCEPT !.next_reminder = time + interval_ms,
                                !.reminder_timer = QTimer_start(@, interval_ms, time)]
         IN update_countdown(o1, cfg, time)

\* variants of reset_reminder_timer: one that arms without cancelling the
\* pending timeout, one that leaves a running timer alone
reset_reminder_timer_uncancelled(self, cfg, time, draw) ==
    IF self.preview \/ self.reminder_timer = None THEN self
    ELSE [schedule_next_reminder(self, cfg, time, draw)
             EXCEPT !.reminder_timer.pending = @ \cup self.reminder_timer.pending]

reset_reminder_timer_if_stopped(self, cfg, time, draw) ==
    IF self.preview \/ self.reminder_timer = None THEN self
    ELSE IF QTimer_isActive(self.reminder_timer) THEN self
    ELSE schedule_next_reminder(self, cfg, time, draw)

reset_reminder_timer(self, cfg, time, draw) ==
    IF self.preview \/ self.reminder_timer = None THEN self
    ELSE schedule_next_reminder([self EXCEPT !.reminder_timer = QTimer_stop(@)], cfg, time, draw)

\* setDuration of the entry and of the exit animation of a style
entry_duration(style) ==
    CASE style = "fade" -> 280 [] style = "slide" -> 320 [] style = "pop" -> 250 [] OTHER -> 0

exit_duration(style) ==
    CASE style = "fade" -> 200 [] style = "slide" -> 240 [] style = "pop" -> 200 [] OTHER -> 0

\* QPropertyAnimation with the closure its finalize callback keeps
QPropertyAnimation(phase, prop, time, duration, curve, o0, o1, r0, r1, fin_opacity, fin_rect) ==
    [phase |-> phase, prop |-> prop, start |-> time, duration |-> duration, curve |-> curve,
     o0 |-> o0, o1 |-> o1, r0 |-> r0, r1 |-> r1,
     fin_opacity |-> fin_opacity, fin_rect |-> fin_rect]

\* variant of start_animation: the active animation is left running
start_animation_unstopped(self, animation) ==
    QAbstractAnimation_start([self EXCEPT !.active_animation = animation], animation)

start_animation(self, animation) ==
    LET o1 == IF self.active_animation # None
              THEN QAbstractAnimation_stop(self, self.active_animation)
              ELSE self
    IN QAbstractAnimation_start([o1 EXCEPT !.active_animation = animation], animation)

run_entry_animation(self, cfg, time) ==
    IF self.preview THEN self
    ELSE LET style == cfg.entry_animation
             end_rect == self.geometry
             target_opacity == cfg.overlay_opacity
         IN CASE style = "fade" ->
                   start_animation([self EXCEPT !.windowOpacity = 0],
                       QPropertyAnimation("entry", "windowOpacity", time, entry_duration(style), "OutCubic",
                           0, target_opacity, end_rect, end_rect, target_opacity, end_rect))
              [] style = "slide" ->
                   LET start_rect == moveTop(end_rect, end_rect.y + 60)
                   IN start_animation([self EXCEPT !.geometry = start_rect],
                       QPropertyAnimation("entry", "geometry", time, entry_duration(style), "OutCubic",
                           0, 0, start_rect, end_rect, target_opacity, end_rect))
              [] style = "pop" ->
                   LET shrink_w == max(40, (end_rect.w * 9) \div 10)
                       shrink_h == max(40, (end_rect.h * 9) \div 10)
                       start_rect == moveCenter([end_rect EXCEPT !.w = shrink_w, !.h = shrink_h],
                                                end_rect)
                   IN start_animation([self EXCEPT !.geometry = start_rect],
                       QPropertyAnimation("entry", "geometry", time, entry_duration(style), "OutCubic",
                           0, 0, start_rect, end_rect, target_opacity, end_rect))
              [] OTHER -> [self EXCEPT !.windowOpacity = target_opacity]

\* run_exit_animation returns whether it started an animation
exit_animated(self, cfg) == ~self.preview /\ cfg.entry_animation \in {"fade", "slide", "pop"}

run_exit_animation(self, cfg, time) ==
    IF self.preview THEN self
    ELSE LET style == cfg.entry_animation
             start_rect == self.geometry
         IN CASE style = "fade" ->
                   start_animation(self,
                       QPropertyAnimation("exit", "windowOpacity", time, exit_duration(style), "InQuad",
                           self.windowOpacity, 0, start_rect, start_rect, 0, start_rect))
              [] style = "slide" ->
                   LET end_rect == moveTop(start_rect, start_rect.y + 80)
                   IN start_animation(self,
                       QPropertyAnimation("exit", "geometry", time, exit_duration(style), "InCubic",
                           0, 0, start_rect, end_rect, 0, start_rect))
              [] style = "pop" ->
                   LET shrink_w == max(20, (start_rect.w * 9) \div 10)
                       shrink_h == max(20, (start_rect.h * 9) \div 10)
                       end_rect == moveCenter([start_rect EXCEPT !.w = shrink_w, !.h = shrink_h],
                                              start_rect)
                   IN start_animation(self,
                       QPropertyAnimation("exit", "geometry", time, exit_duration(style), "InBack",
                           0, 0, start_rect, end_rect, 0, start_rect))
              [] OTHER -> self

\* the finalize closure of an animation
finalize(self, animation, cfg) ==
    IF animation.phase = "entry"
    THEN [self EXCEPT !.windowOpacity = animation.fin_opacity,
                      !.geometry = animation.fin_rect]
    ELSE IF animation.prop = "windowOpacity"
    THEN [self EXCEPT !.windowOpacity = cfg.overlay_opacity, !.visible = FALSE]
    ELSE [self EXCEPT !.geometry = animation.fin_rect, !.visible = FALSE]

\* cleanup after finalize: the animation is forgotten if it is the active one
forget_animation(self, animation) ==
    IF self.active_animation = animation THEN [self EXCEPT !.active_animation = None] ELSE self

cleanup(self, animation, cfg) ==
    forget_animation(finalize(self, animation, cfg), animation)

\* the animation reaches its end value, stops and emits finished
animation_finished(self, animation, cfg) ==
    LET o1 == IF animation.prop = "windowOpacity"
              THEN [self EXCEPT !.windowOpacity = animation.o1]
              ELSE [self EXCEPT !.geometry = animation.r1]
    IN cleanup(QAbstractAnimation_stop(o1, animation), animation, cfg)

\* variant of start_auto_hide: the timer runs for the reminder interval
start_auto_hide_for_interval(self, cfg, time) ==
    IF ~self.preview /\ self.auto_hide_timer # None
    THEN [self EXCEPT !.auto_hide_timer = QTimer_start(@, cfg.reminder_interval_ms, time)]
    ELSE self

\* variant of start_auto_hide: a timer that is active is left as it is
start_auto_hide_unless_active(self, cfg, time) ==
    IF ~self.preview /\ self.auto_hide_timer # None /\ ~QTimer_isActive(self.auto_hide_timer)
    THEN [self EXCEPT !.auto_hide_timer = QTimer_start(@, cfg.auto_hide_ms, time)]
    ELSE self

\* show_overlay arms the auto-hide timer
start_auto_hide(self, cfg, time) ==
    IF ~self.preview /\ self.auto_hide_timer # None
    THEN [self EXCEPT !.auto_hide_timer = QTimer_start(@, cfg.auto_hide_ms, time)]
    ELSE self

\* show_overlay: the sprite timer is started unless it runs
start_sprite_timer(self, cfg, time) ==
    IF ~QTimer_isActive(self.animation_timer)
    THEN [self EXCEPT !.animation_timer = QTimer_start(@, cfg.animation_interval_ms, time)]
    ELSE self

\* show_overlay: the first frame, the movie or the fallback picture
show_picture(self, cfg, time) ==
    IF cfg.animation_enabled /\ self.frame_pixmaps > 0
    THEN start_sprite_timer(set_static_pixmap([self EXCEPT !.animation_index = 0], "frame", 0),
                            cfg, time)
    ELSE IF self.fallback_movie /\ cfg.animation_enabled THEN set_movie(self)
    ELSE set_static_pixmap(self, "fallback", 0)

\* show_overlay: setFixedSize of a preview, and show()
show(self, cfg) ==
    IF self.preview
    THEN [self EXCEPT !.geometry.w = cfg.overlay_width, !.geometry.h = cfg.overlay_height,
                      !.visible = TRUE]
    ELSE [self EXCEPT !.visible = TRUE]

\* variant of enter_unless_preview: no entry animation while another runs
enter_unless_animating(self, cfg, time) ==
    IF ~self.preview /\ self.active_animation = None
    THEN run_entry_animation(self, cfg, time)
    ELSE self

\* if not self.preview: self.run_entry_animation()
enter_unless_preview(self, cfg, time) ==
    IF ~self.preview THEN run_entry_animation(self, cfg, time) ELSE self

show_overlay(self, cfg, time, cursor) ==
    LET o1 == apply_config(self, cfg, time, cursor)
        o2 == position_unless_preview(o1, cfg, cursor)
        o3 == show_picture(o2, cfg, time)
        o4 == update_countdown(o3, cfg, time)
        o5 == start_auto_hide(o4, cfg, time)
        o6 == show(o5, cfg)
    IN enter_unless_preview(o6, cfg, time)

\* variant of stop_timers: the auto-hide timer is left running
stop_timers_keeping_auto_hide(self) ==
    [self EXCEPT !.animation_timer = QTimer_stop(@),
                 !.movie_running = IF self.fallback_movie THEN FALSE ELSE @]

\* hide_overlay: the auto-hide timer, the sprite timer and the movie stop
stop_timers(self) ==
    [self EXCEPT !.auto_hide_timer = IF @ # None THEN QTimer_stop(@) ELSE @,
                 !.animation_timer = QTimer_stop(@),
                 !.movie_running = IF self.fallback_movie THEN FALSE ELSE @]

\* variant of stop_active_animation: the animation is forgotten and not
\* stopped
stop_active_animation_forgetting(self) ==
    [self EXCEPT !.active_animation = None]

\* hide_overlay: the active animation is stopped and forgotten
stop_active_animation(self) ==
    IF self.active_animation # None
    THEN [QAbstractAnimation_stop(self, self.active_animation) EXCEPT !.active_animation = None]
    ELSE self

\* variant of exit_or_hide: hide() is left to the exit animation
exit_or_hide_by_animation(self, cfg, time) ==
    run_exit_animation(self, cfg, time)

\* hide_overlay: the exit animation, or hide() at once when there is none
exit_or_hide(self, cfg, time) ==
    IF exit_animated(self, cfg) THEN run_exit_animation(self, cfg, time)
    ELSE [self EXCEPT !.visible = FALSE]

hide_overlay(self, cfg, time) ==
    IF self.preview THEN [self EXCEPT !.visible = FALSE]
    ELSE exit_or_hide(stop_active_animation(stop_timers(self)), cfg, time)

\* variant of advance_animation: the index is not taken modulo the length
advance_animation_unbounded(self, cfg) ==
    IF ~cfg.animation_enabled \/ self.frame_pixmaps = 0 THEN self
    ELSE set_static_pixmap([self EXCEPT !.animation_index = @ + 1], "frame",
                           self.animation_index + 1)

advance_animation(self, cfg) ==
    IF ~cfg.animation_enabled THEN self
    ELSE IF self.frame_pixmaps > 0
    THEN LET i == (self.animation_index + 1) % self.frame_pixmaps
         IN set_static_pixmap([self EXCEPT !.animation_index = i], "frame", i)
    ELSE IF self.fallback_movie
    THEN IF self.picture.kind # "movie" THEN set_movie(self) ELSE self
    ELSE set_static_pixmap(self, "fallback", 0)

\* variant of trigger_reminder: shows the overlay and arms nothing
trigger_reminder_show_only(self, cfg, time, draw, cursor) ==
    IF self.preview THEN self
    ELSE show_overlay(self, cfg, time, cursor)

\* variant of trigger_reminder: a fire on an overlay that is still shown
\* is dropped
trigger_reminder_unless_shown(self, cfg, time, draw, cursor) ==
    IF self.preview \/ self.visible THEN self
    ELSE show_overlay(schedule_next_reminder(self, cfg, time, draw), cfg, time, cursor)

trigger_reminder(self, cfg, time, draw, cursor) ==
    IF self.preview THEN self
    ELSE show_overlay(schedule_next_reminder(self, cfg, time, draw), cfg, time, cursor)

\* variants of mousePressEvent: one that does not tell a preview from an
\* overlay, one that hides the overlay and keeps the schedule
mousePressEvent_unguarded(self, cfg, time, draw) ==
    reset_reminder_timer(hide_overlay(self, cfg, time), cfg, time, draw)

mousePressEvent_hide_only(self, cfg, time, draw) ==
    IF self.preview THEN self
    ELSE hide_overlay(self, cfg, time)

mousePressEvent(self, cfg, time, draw) ==
    IF self.preview THEN self
    ELSE reset_reminder_timer(hide_overlay(self, cfg, time), cfg, time, draw)

\* __init__: a preview starts its sprite timer and is shown, an overlay
\* is hidden
show_if_preview(self, cfg, time) ==
    IF self.preview
    THEN [set_countdown_text(self, cfg, [text |-> "Preview", remaining |-> 0])
             EXCEPT !.animation_timer = QTimer_start(@, cfg.animation_interval_ms, time),
                    !.visible = TRUE]
    ELSE [self EXCEPT !.visible = FALSE]

\* __init__ (assets: what load_animation_assets returns)
ReminderOverlay(cfg, is_preview, assets, time, cursor) ==
    LET o0 == [preview |-> is_preview,
               visible |-> FALSE,
               frame_pixmaps |-> 0,
               fallback_movie |-> FALSE,
               movie_running |-> FALSE,
               picture |-> [kind |-> "fallback", index |-> 0],
               countdown_label |-> [text |-> "", remaining |-> 0],
               animation_index |-> 0,
               animation_timer |-> QTimer(FALSE),
               active_animation |-> None,
               running |-> {},
               auto_hide_timer |-> IF is_preview THEN None ELSE QTimer(TRUE),
               reminder_timer |-> IF is_preview THEN None ELSE QTimer(TRUE),
               countdown_timer |-> IF is_preview THEN None
                                   ELSE QTimer_start(QTimer(FALSE), 1000, time),
               next_reminder |-> time + cfg.reminder_interval_ms,
               windowOpacity |-> 100,
               geometry |-> QRect(0, 0, 0, 0)]
        o1 == apply_config(load_assets(o0, assets), cfg, time, cursor)
    IN show_if_preview(o1, cfg, time)

\* OverlayPreview.__init__
OverlayPreview(cfg, assets, time) ==
    show_overlay(ReminderOverlay(cfg, TRUE, assets, time, None), cfg, time, None)

\* ---------------------------------------------------------------------
\* SettingsWindow: the widgets' values.  A spin box keeps its value inside
\* its range; the double spin boxes have two decimals and are kept here in
\* hundredths of their unit.
\* ---------------------------------------------------------------------

clamp(v, lo, hi) == max(lo, min(hi, v))

\* round(ms / unit) for the value a double spin box shows
rounded(ms, unit) == (2 * ms + unit) \div (2 * unit)

findData(items, data, first) == IF data \in items THEN data ELSE first

SettingsWindow(cfg) ==
    [position_combo |-> findData({"bottom_right", "bottom_left", "top_right", "top_left"},
                                 cfg.position, "bottom_right"),
     random_spin |-> clamp(cfg.random_offset_ms \div 1000, 0, 3600),
     interval_spin |-> clamp(rounded(cfg.reminder_interval_ms, 600), 100, 24000),
     autohide_spin |-> clamp(rounded(cfg.auto_hide_ms, 10), 100, 12000),
     animation_interval_spin |-> clamp(rounded(cfg.animation_interval_ms, 10), 5, 500),
     animation_enabled_check |-> cfg.animation_enabled,
     margin_x_spin |-> clamp(cfg.margin_x, 0, 400),
     margin_y_spin |-> clamp(cfg.margin_y, 0, 400),
     width_spin |-> clamp(cfg.overlay_width, 180, 600),
     height_spin |-> clamp(cfg.overlay_height, 120, 400),
     opacity_slider |-> clamp(cfg.overlay_opacity, 10, 100),
     countdown_check |-> cfg.countdown_enabled,
     monitor_combo |-> findData({sc.name : sc \in screens}, cfg.monitor_id, "auto"),
     entry_animation_combo |-> findData({"fade", "slide", "pop"}, cfg.entry_animation, "fade")]

\* the configuration apply_changes writes from the widgets
apply_changes_config(cfg, w) ==
    [cfg EXCEPT !.position = w.position_combo,
                !.random_offset_ms = w.random_spin * 1000,
                !.reminder_interval_ms = w.interval_spin * 600,
                !.auto_hide_ms = w.autohide_spin * 10,
                !.animation_interval_ms = w.animation_interval_spin * 10,
                !.animation_enabled = w.animation_enabled_check,
                !.entry_animation = w.entry_animation_combo,
                !.margin_x = w.margin_x_spin,
                !.margin_y = w.margin_y_spin,
                !.overlay_width = w.width_spin,
                !.overlay_height = w.height_spin,
                !.overlay_opacity = max(10, w.opacity_slider),
                !.countdown_enabled = w.countdown_check,
                !.monitor_id = w.monitor_combo]

\* apply_cli_overrides: args maps the options given on the command line to
\* their values (--interval in hundredths of a minute, --autohide and
\* --animation-speed in hundredths of a second, --opacity in percent); an
\* option that is absent is None in the code
apply_cli_overrides(cfg, args) ==
    LET given(k) == k \in DOMAIN args
        truthy(k) == IF k \in DOMAIN args THEN args[k] # 0 ELSE FALSE
    IN [cfg EXCEPT
          !.reminder_interval_ms = IF truthy("interval") THEN max(100, args["interval"]) * 600 ELSE @,
          !.auto_hide_ms = IF truthy("autohide") THEN max(100, args["autohide"]) * 10 ELSE @,
          !.animation_interval_ms =
              IF truthy("animation_speed") THEN max(5, args["animation_speed"]) * 10 ELSE @,
          !.show_preview_on_launch = IF given("no_preview") THEN FALSE ELSE @,
          !.position = IF given("position") THEN args["position"] ELSE @,
          !.margin_x = IF given("margin_x") THEN max(0, args["margin_x"]) ELSE @,
          !.margin_y = IF given("margin_y") THEN max(0, args["margin_y"]) ELSE @,
          !.random_offset_ms = IF given("random") THEN max(0, args["random"]) * 1000 ELSE @,
          !.overlay_width = IF truthy("width") THEN max(180, args["width"]) ELSE @,
          !.overlay_height = IF truthy("height") THEN max(120, args["height"]) ELSE @,
          !.overlay_opacity = IF truthy("opacity") THEN min(100, max(10, args["opacity"])) ELSE @,
          !.monitor_id = IF given("monitor") THEN args["monitor"] ELSE @,
          !.entry_animation = IF given("entry_animation") THEN args["entry_animation"] ELSE @]

\* ---------------------------------------------------------------------
\* Lifecycle of an overlay, read off its widget state
\* ---------------------------------------------------------------------

Lifecycle(o) ==
    IF ~o.visible THEN "Idle"
    ELSE IF o.active_animation = None THEN "Visible"
    ELSE IF o.active_animation.phase = "entry" THEN "Entering"
    ELSE "Hiding"

\* ---------------------------------------------------------------------
\* Inputs of the exploration
\* ---------------------------------------------------------------------

\* configurations after load_config_from_disk and apply_cli_overrides:
\* the timing fields vary under the default effect, and the effect
\* varies under one timing
BaseConfig ==
    [AppConfig EXCEPT !.reminder_interval_ms = 500, !.auto_hide_ms = 500,
                      !.preview_delay_ms = 500, !.animation_interval_ms = 500]

StartupConfigs ==
    {[BaseConfig EXCEPT !.entry_animation = e] : e \in {"fade", "slide", "pop", "none"}}
    \cup {[BaseConfig EXCEPT !.reminder_interval_ms = 2000],
          [BaseConfig EXCEPT !.random_offset_ms = 400],
          [BaseConfig EXCEPT !.auto_hide_ms = 1500],
          [BaseConfig EXCEPT !.show_preview_on_launch = FALSE]}

\* what load_animation_assets finds
AssetSets == {[frames |-> 2, movie |-> FALSE]}

\* QApplication.screenAt(QCursor.pos()): the pointer stays on the primary
\* monitor during a run
CursorScreens == {primaryScreen}

\* edits of one widget of the settings window
UserEdits ==
    {<<"interval_spin", 200>>, <<"autohide_spin", 100>>,
     <<"animation_enabled_check", FALSE>>, <<"entry_animation_combo", "slide">>}

\* time the user lets pass to act while an animation of the overlay runs
AdvanceSteps == IF overlay.running # {} THEN {150} ELSE {}

Draws(cfg) == IF cfg.random_offset_ms > 0 THEN randint(cfg.random_offset_ms) ELSE {0}

\* ---------------------------------------------------------------------
\* History of a run (read by the properties only)
\* ---------------------------------------------------------------------

\* the inputs of a call of schedule_next_reminder, and the timeouts of
\* the reminder timer that were pending when it was called
Arming(cfg, time, draw, timer) ==
    [at |-> time, interval |-> cfg.reminder_interval_ms, ceiling |-> cfg.random_offset_ms,
     draw |-> IF cfg.random_offset_ms > 0 THEN draw ELSE 0,
     replaced |-> timer.pending]

\* a call of show_overlay on the overlay o at a time
Exposure(h, o, cfg, time) ==
    [shown_at |-> time, shown_hide_ms |-> cfg.auto_hide_ms,
     left_idle_at |-> IF Lifecycle(o) = "Idle" THEN time ELSE h.exposure.left_idle_at,
     left_idle_hide_ms |-> IF Lifecycle(o) = "Idle" THEN cfg.auto_hide_ms
                           ELSE h.exposure.left_idle_hide_ms]

\* the callback op ran; arm and exposure are the new ones, or the old
Callback(op, arm, exposure) ==
    [op |-> op, from |-> Lifecycle(overlay), arm |-> arm, exposure |-> exposure]

\* ---------------------------------------------------------------------
\* The event loop: one action per callback
\* ---------------------------------------------------------------------

TimerDeadlines(o) ==
    o.animation_timer.pending
    \cup (IF o.auto_hide_timer = None THEN {} ELSE o.auto_hide_timer.pending)
    \cup (IF o.reminder_timer = None THEN {} ELSE o.reminder_timer.pending)
    \cup (IF o.countdown_timer = None THEN {} ELSE o.countdown_timer.pending)
    \cup {endTime(a) : a \in o.running}

Deadlines == TimerDeadlines(overlay) \cup TimerDeadlines(preview) \cup launch

\* the event loop has delivered every timeout that is due; user input is
\* taken at such instants
Idling == \A dl \in Deadlines : dl > now

\* ReminderApplication.__init__ at time 0, on a configuration
Startup(cfg) ==
    /\ now = 0
    /\ config = cfg
    /\ \E assets \in AssetSets, cursor \in CursorScreens, draw \in Draws(config) :
          /\ overlay = schedule_next_reminder(
                           ReminderOverlay(config, FALSE, assets, 0, cursor), config, 0, draw)
          /\ preview = OverlayPreview(config, assets, 0)
          /\ hist = [op |-> "init", from |-> "Idle", arm |-> Arming(config, 0, draw, QTimer(TRUE)),
                     exposure |-> [shown_at |-> 0, shown_hide_ms |-> 0,
                                   left_idle_at |-> 0, left_idle_hide_ms |-> 0]]
    /\ ui = SettingsWindow(config)
    /\ launch = IF config.show_preview_on_launch THEN {config.preview_delay_ms} ELSE {}
    /\ inputs = 0

Init == \E cfg \in StartupConfigs : Startup(cfg)

\* reminder_timer.timeout -> trigger_reminder
ReminderTimeout ==
    \E d \in overlay.reminder_timer.pending, draw \in Draws(config), cursor \in CursorScreens :
        /\ d <= now
        /\ overlay' = trigger_reminder([overlay EXCEPT !.reminder_timer = QTimer_timeout(@, d)],
                                       config, now, draw, cursor)
        /\ hist' = Callback("trigger_reminder",
                            Arming(config, now, draw, QTimer_timeout(overlay.reminder_timer, d)),
                            Exposure(hist, overlay, config, now))
        /\ UNCHANGED <<now, config, ui, preview, launch, inputs>>

\* auto_hide_timer.timeout -> hide_overlay
AutoHideTimeout ==
    \E d \in overlay.auto_hide_timer.pending :
        /\ d <= now
        /\ overlay' = hide_overlay([overlay EXCEPT !.auto_hide_timer = QTimer_timeout(@, d)],
                                   config, now)
        /\ hist' = Callback("auto_hide", hist.arm, hist.exposure)
        /\ UNCHANGED <<now, config, ui, preview, launch, inputs>>

\* countdown_timer.timeout -> update_countdown
CountdownTick ==
    \E d \in overlay.countdown_timer.pending :
        /\ d <= now
        /\ overlay' = update_countdown([overlay EXCEPT !.countdown_timer = QTimer_timeout(@, d)],
                                       config, now)
        /\ hist' = Callback("update_countdown", hist.arm, hist.exposure)
        /\ UNCHANGED <<now, config, ui, preview, launch, inputs>>

\* animation_timer.timeout -> advance_animation, of the overlay
SpriteTick ==
    \E d \in overlay.animation_timer.pending :
        /\ d <= now
        /\ overlay' = advance_animation([overlay EXCEPT !.animation_timer = QTimer_timeout(@, d)],
                                        config)
        /\ hist' = Callback("advance_animation", hist.arm, hist.exposure)
        /\ UNCHANGED <<now, config, ui, preview, launch, inputs>>

\* animation_timer.timeout -> advance_animation, of the preview
PreviewSpriteTick ==
    \E d \in preview.animation_timer.pending :
        /\ d <= now
        /\ preview' = advance_animation([preview EXCEPT !.animation_timer = QTimer_timeout(@, d)],
                                        config)
        /\ hist' = Callback("preview_advance_animation", hist.arm, hist.exposure)
        /\ UNCHANGED <<now, config, ui, overlay, launch, inputs>>

\* animation.finished -> cleanup
AnimationFinished ==
    \E a \in overlay.running :
        /\ endTime(a) <= now
        /\ overlay' = animation_finished(overlay, a, config)
        /\ hist' = Callback("cleanup", hist.arm, hist.exposure)
        /\ UNCHANGED <<now, config, ui, preview, launch, inputs>>

\* QTimer.singleShot(preview_delay_ms, overlay.show_overlay)
LaunchPreview ==
    \E d \in launch, cursor \in CursorScreens :
        /\ d <= now
        /\ launch' = launch \ {d}
        /\ overlay' = show_overlay(overlay, config, now, cursor)
        /\ hist' = Callback("launch_preview", hist.arm,
                            Exposure(hist, overlay, config, now))
        /\ UNCHANGED <<now, config, ui, preview, inputs>>

\* variant of ShowNow: the tray command resets the schedule as the show
\* button of the settings window does
ShowNow_resetting ==
    /\ inputs < MaxInputs /\ Idling
    /\ \E cursor \in CursorScreens, draw \in Draws(config) :
          overlay' = reset_reminder_timer(show_overlay(overlay, config, now, cursor),
                                          config, now, draw)
    /\ hist' = Callback("show_overlay", hist.arm, Exposure(hist, overlay, config, now))
    /\ inputs' = inputs + 1
    /\ UNCHANGED <<now, config, ui, preview, launch>>

\* tray menu "Jetzt erinnern" -> show_overlay
ShowNow ==
    /\ inputs < MaxInputs /\ Idling
    /\ \E cursor \in CursorScreens :
          overlay' = show_overlay(overlay, config, now, cursor)
    /\ hist' = Callback("show_overlay", hist.arm, Exposure(hist, overlay, config, now))
    /\ inputs' = inputs + 1
    /\ UNCHANGED <<now, config, ui, preview, launch>>

\* SettingsWindow._handle_show_overlay
HandleShowOverlay ==
    /\ inputs < MaxInputs /\ Idling
    /\ \E cursor \in CursorScreens, draw \in Draws(config) :
          /\ overlay' = reset_reminder_timer(show_overlay(overlay, config, now, cursor),
                                             config, now, draw)
          /\ hist' = Callback("handle_show_overlay",
                              Arming(config, now, draw, overlay.reminder_timer),
                              Exposure(hist, overlay, config, now))
    /\ inputs' = inputs + 1
    /\ UNCHANGED <<now, config, ui, preview, launch>>

\* a mouse press; it reaches the overlay window only while it is shown
MousePress ==
    /\ inputs < MaxInputs /\ Idling
    /\ overlay.visible
    /\ \E draw \in Draws(config) :
          /\ overlay' = mousePressEvent(overlay, config, now, draw)
          /\ hist' = Callback("mousePressEvent",
                              Arming(config, now, draw, overlay.reminder_timer), hist.exposure)
    /\ inputs' = inputs + 1
    /\ UNCHANGED <<now, config, ui, preview, launch>>

\* a mouse press on the preview in the settings window
PreviewMousePress ==
    /\ inputs < MaxInputs /\ Idling
    /\ preview.visible
    /\ \E draw \in Draws(config) :
          preview' = mousePressEvent(preview, config, now, draw)
    /\ hist' = Callback("preview_mousePressEvent", hist.arm, hist.exposure)
    /\ inputs' = inputs + 1
    /\ UNCHANGED <<now, config, ui, overlay, launch>>

\* variant of ApplyChanges: the overlay's schedule is kept
ApplyChanges_keeping_schedule ==
    /\ inputs < MaxInputs /\ Idling
    /\ \E edit \in UserEdits, cursor \in CursorScreens :
          /\ ui[edit[1]] # edit[2]
          /\ ui' = [ui EXCEPT ![edit[1]] = edit[2]]
          /\ config' = apply_changes_config(config, ui')
          /\ overlay' = apply_config(overlay, config', now, cursor)
          /\ hist' = Callback("apply_changes", hist.arm, hist.exposure)
          /\ preview' = show_overlay(apply_config(preview, config', now, cursor),
                                     config', now, cursor)
    /\ inputs' = inputs + 1
    /\ UNCHANGED <<now, launch>>

\* SettingsWindow.apply_changes, on the change of one widget's value
ApplyChanges ==
    /\ inputs < MaxInputs /\ Idling
    /\ \E edit \in UserEdits, cursor \in CursorScreens :
          /\ ui[edit[1]] # edit[2]
          /\ ui' = [ui EXCEPT ![edit[1]] = edit[2]]
          /\ config' = apply_changes_config(config, ui')
          /\ \E draw \in Draws(config') :
                /\ overlay' = reset_reminder_timer(apply_config(overlay, config', now, cursor),
                                                   config', now, draw)
                /\ hist' = Callback("apply_changes",
                                    Arming(config', now, draw, overlay.reminder_timer),
                                    hist.exposure)
          /\ preview' = show_overlay(apply_config(preview, config', now, cursor),
                                     config', now, cursor)
    /\ inputs' = inputs + 1
    /\ UNCHANGED <<now, launch>>

\* time passes; no timeout is overdue, and the running animations draw
\* their frame
Advance ==
    \E d \in AdvanceSteps \cup {dl - now : dl \in Deadlines} :
        /\ d > 0
        /\ now + d <= MaxTime
        /\ \A dl \in Deadlines : now + d <= dl
        /\ now' = now + d
        /\ overlay' = animation_frame(overlay, now')
        /\ preview' = animation_frame(preview, now')
        /\ hist' = Callback("advance", hist.arm, hist.exposure)
        /\ UNCHANGED <<config, ui, launch, inputs>>

\* the callbacks of the timers and animations, and the passing of time
Unattended ==
    \/ ReminderTimeout
    \/ AutoHideTimeout
    \/ CountdownTick
    \/ SpriteTick
    \/ PreviewSpriteTick
    \/ AnimationFinished
    \/ LaunchPreview
    \/ Advance

Next ==
    \/ Unattended
    \/ ShowNow
    \/ HandleShowOverlay
    \/ MousePress
    \/ PreviewMousePress
    \/ ApplyChanges

Spec == Init /\ [][Next]_vars


\* An unattended run (no user input), on a wider range of the timing
\* fields of the configuration file.
TimingConfigs ==
    {[BaseConfig EXCEPT !.reminder_interval_ms = i, !.random_offset_ms = j, !.auto_hide_ms = h] :
        i \in {-500, 0, 500, 800, 1000, 2000}, j \in {0, 400, 1000}, h \in {500, 900, 1500}}
    \cup {[BaseConfig EXCEPT !.animation_interval_ms = a] : a \in {-5, 0, 5, 25}}

UnattendedInit == \E cfg \in StartupConfigs \cup TimingConfigs : Startup(cfg)

UnattendedSpec == UnattendedInit /\ [][Unattended]_vars

\* ---------------------------------------------------------------------
\* Calls of the pure functions, on arguments drawn from bounded sets; hist
\* is the call, its arguments and its result.  The functions keep no
\* state, so that a run is one call.
\* ---------------------------------------------------------------------

\* availableGeometry of the monitors, and of a small one
ScreenGeometries == {sc.geo : sc \in screens} \cup {QRect(1920, 0, 800, 600)}

\* self.width() and self.height()
OverlayWidths == {360, 600, 800, 2000}

OverlayHeights == {180, 400, 600, 1200}

Positions == {"bottom_right", "bottom_left", "top_right", "top_left"}

\* margin_x and margin_y as from_dict reads them
Margins == {-20, 0, 16, 400, 2500}

\* monitor_id as from_dict reads it
MonitorIds == {"auto", "DISPLAY1", "DISPLAY2", "HDMI-9"}

\* QApplication.screenAt(QCursor.pos()), None off every monitor
PointerScreens == screens \cup {None}

\* arguments of format_interval and format_short_duration
Durations ==
    {h * 3600000 + m * 60000 + sec * 1000 + ms :
        h \in {0, 1, 2, 25}, m \in {0, 1, 45, 59}, sec \in {0, 1, 59}, ms \in {0, 999}}
    \cup {-3600000, -60000, -1}

\* position_overlay on a monitor's geometry
PositionOverlay ==
    \E geo \in ScreenGeometries, width \in OverlayWidths, height \in OverlayHeights,
       position \in Positions, margin_x \in Margins, margin_y \in Margins :
        /\ hist.op = "init"
        /\ hist' = [op |-> "position_overlay", geo |-> geo, width |-> width, height |-> height,
                     position |-> position, margin_x |-> margin_x, margin_y |-> margin_y,
                     result |-> resolve(geo, width, height, position, margin_x, margin_y),
                     moved |-> position_overlay(
                                   [overlay EXCEPT !.geometry.w = width, !.geometry.h = height],
                                   [config EXCEPT !.position = position, !.margin_x = margin_x,
                                                  !.margin_y = margin_y],
                                   [name |-> "pointer", geo |-> geo]).geometry]
        /\ UNCHANGED <<now, config, ui, overlay, preview, launch, inputs>>

\* _target_screen of the overlay
TargetScreen ==
    \E monitor_id \in MonitorIds, cursor \in PointerScreens :
        /\ hist.op = "init"
        /\ hist' = [op |-> "target_screen", monitor_id |-> monitor_id, cursor |-> cursor,
                     result |-> target_screen(overlay, [config EXCEPT !.monitor_id = monitor_id],
                                              cursor)]
        /\ UNCHANGED <<now, config, ui, overlay, preview, launch, inputs>>

FormatInterval ==
    \E milliseconds \in Durations :
        /\ hist.op = "init"
        /\ hist' = [op |-> "format_interval", milliseconds |-> milliseconds,
                     result |-> format_interval(milliseconds)]
        /\ UNCHANGED <<now, config, ui, overlay, preview, launch, inputs>>

FormatShortDuration ==
    \E milliseconds \in Durations :
        /\ hist.op = "init"
        /\ hist' = [op |-> "format_short_duration", milliseconds |-> milliseconds,
                     result |-> format_short_duration(milliseconds)]
        /\ UNCHANGED <<now, config, ui, overlay, preview, launch, inputs>>

\* the values a configuration file holds under a key: ints, floats (inf
\* and nan among them), strs (numerals among them), bools, null and lists
FieldValues(key) ==
    IF key \in IntFields
    THEN {JInt(-20), JInt(0), JInt(1500), Val("float", 1990, "19.9", ""),
          Val("float", 0, "inf", "inf"), Val("float", 0, "nan", "nan"),
          Val("str", 250, "250", "int"), JStr("abc"), JBool(TRUE),
          Val("null", 0, "None", ""), Val("list", 0, "[1]", "")}
    ELSE IF key \in {"show_preview_on_launch", "countdown_enabled", "animation_enabled"}
    THEN {JBool(FALSE), JBool(TRUE), JStr("false"), JStr(""), JInt(0),
          Val("null", 0, "None", "")}
    ELSE IF key = "position"
    THEN {JStr("top_left"), JStr("center"), JInt(5), Val("null", 0, "None", "")}
    ELSE IF key = "entry_animation"
    THEN {JStr("slide"), JStr("none"), JStr("zoom"), JBool(TRUE)}
    ELSE IF key = "monitor_id"
    THEN {JStr("DISPLAY2"), JStr("HDMI-9"), JInt(1), Val("null", 0, "None", "")}
    ELSE {Val("float", 85, "0.85", ""), Val("float", 250, "2.5", ""),
          Val("float", -50, "-0.5", ""), JInt(1), Val("str", 50, "0.5", "float"),
          JStr("abc"), Val("null", 0, "None", "")}

\* the contents of the configuration file: no dict, the empty dict, every
\* dict of one key, and dicts of two keys
ConfigData ==
    {NotADict, JDict([k \in {} |-> JInt(0)])}
    \cup UNION {{JDict(key :> val) : val \in FieldValues(key)} : key \in DOMAIN AppConfig}
    \cup UNION {{JDict((pair[1] :> v1) @@ (pair[2] :> v2)) :
                    v1 \in FieldValues(pair[1]), v2 \in FieldValues(pair[2])} :
                 pair \in {<<"margin_x", "position">>,
                           <<"reminder_interval_ms", "countdown_enabled">>}}

\* the colour entries of the configuration file
ColorData ==
    LET ChannelValues == {JInt(0), JInt(255), JInt(300), JInt(-1),
                          Val("float", 12750, "127.5", ""), Val("float", 0, "inf", "inf"),
                          JStr("red"), Val("null", 0, "None", "")}
    IN {NotADict, JDict([k \in {} |-> JInt(0)])}
       \cup {JDict(key :> val) : key \in {"r", "g", "b", "a"}, val \in ChannelValues}
       \cup {JDict(("r" :> v1) @@ ("a" :> v2)) : v1 \in ChannelValues, v2 \in ChannelValues}

\* AppConfig.from_dict(data)
FromDict ==
    \E data \in ConfigData :
        /\ hist.op = "init"
        /\ hist' = [op |-> "from_dict", data |-> data, result |-> from_dict(data)]
        /\ UNCHANGED <<now, config, ui, overlay, preview, launch, inputs>>

\* color_from_dict(data.get("border_color"), config.border_color)
ColorFromDict ==
    \E data \in ColorData :
        /\ hist.op = "init"
        /\ hist' = [op |-> "color_from_dict", data |-> data, fallback |-> QColor(255, 255, 255, 200),
                     result |-> color_from_dict(data, QColor(255, 255, 255, 200))]
        /\ UNCHANGED <<now, config, ui, overlay, preview, launch, inputs>>

\* the command lines: no option, and one option
CliArgs ==
    {[k \in {} |-> 0]}
    \cup {"interval" :> v : v \in {-500, 0, 50, 200}}
    \cup {"autohide" :> v : v \in {-100, 0, 250}}
    \cup {"animation_speed" :> v : v \in {0, 2, 25}}
    \cup {k :> v : k \in {"margin_x", "margin_y"}, v \in {-5, 0, 30}}
    \cup {"random" :> v : v \in {-3, 0, 2}}
    \cup {k :> v : k \in {"width", "height"}, v \in {-100, 0, 100, 500}}
    \cup {"opacity" :> v : v \in {0, 5, 50, 250}}
    \cup {"no_preview" :> TRUE, "position" :> "top_left", "monitor" :> "DISPLAY2",
          "entry_animation" :> "pop"}

\* main: load_config_from_disk, then apply_cli_overrides
LoadAndOverride ==
    \E data \in ConfigData, args \in CliArgs :
        /\ hist.op = "init"
        /\ hist' = [op |-> "main", data |-> data, args |-> args,
                     result |-> IF from_dict(data).exc # "" THEN from_dict(data)
                                ELSE [exc |-> "",
                                      config |-> apply_cli_overrides(from_dict(data).config, args)]]
        /\ UNCHANGED <<now, config, ui, overlay, preview, launch, inputs>>

\* apply_changes in a settings window opened on the loaded configuration
ApplySettings ==
    \E data \in ConfigData :
        /\ hist.op = "init"
        /\ from_dict(data).exc = ""
        /\ hist' = [op |-> "apply_changes_config", data |-> data,
                     result |-> apply_changes_config(from_dict(data).config,
                                                     SettingsWindow(from_dict(data).config))]
        /\ UNCHANGED <<now, config, ui, overlay, preview, launch, inputs>>

\* what the asset directory and the bundled gif hold
Disks ==
    [dir : BOOLEAN,
     frames : UNION {[1..n -> {"missing", "valid", "null"}] : n \in 0..3},
     movies : [1..3 -> {"missing", "valid", "invalid"}],
     default_gif : {"missing", "valid", "invalid"}]

\* load_assets of the overlay
LoadAssets ==
    \E disk \in Disks :
        /\ hist.op = "init"
        /\ hist' = [op |-> "load_assets", disk |-> disk,
                     result |-> load_assets(overlay, load_animation_assets(disk))]
        /\ UNCHANGED <<now, config, ui, overlay, preview, launch, inputs>>

FunctionInit == Startup(AppConfig)

FunctionNext ==
    \/ PositionOverlay
    \/ TargetScreen
    \/ FormatInterval
    \/ FormatShortDuration
    \/ FromDict
    \/ ColorFromDict
    \/ LoadAndOverride
    \/ LoadAssets
    \/ ApplySettings

FunctionSpec == FunctionInit /\ [][FunctionNext]_vars

\* ---------------------------------------------------------------------
\* Properties
\* ---------------------------------------------------------------------

\* the time at which the armed schedule fires
fires_at == overlay.reminder_timer.pending

\* the callbacks that call reset_reminder_timer
ResetOps == {"mousePressEvent", "handle_show_overlay", "apply_changes"}

\* C1: with no user interaction, every time the overlay is shown by a
\* scheduler fire or the launch preview it has returned to Idle since it
\* was shown before, whatever the interval, jitter and auto-hide duration
C1_HiddenBeforeNextShow ==
    hist.op \in {"trigger_reminder", "launch_preview"} => hist.from = "Idle"

\* C2 as stated: the time from leaving Idle to the start of Hiding never
\* exceeds the auto-hide duration in force when the overlay left Idle
C2_Original ==
    /\ Lifecycle(overlay) \in {"Entering", "Visible"} =>
          now - hist.exposure.left_idle_at <= hist.exposure.left_idle_hide_ms
    /\ hist.op \in {"auto_hide", "mousePressEvent"} /\ hist.from \in {"Entering", "Visible"} =>
          now - hist.exposure.left_idle_at <= hist.exposure.left_idle_hide_ms

\* C2 amended: the time from the most recent show of the overlay to the
\* start of Hiding never exceeds the auto-hide duration in force at that
\* show
C2_ExposureSinceLastShow ==
    /\ Lifecycle(overlay) \in {"Entering", "Visible"} =>
          now - hist.exposure.shown_at <= hist.exposure.shown_hide_ms
    /\ hist.op \in {"auto_hide", "mousePressEvent"} /\ hist.from \in {"Entering", "Visible"} =>
          now - hist.exposure.shown_at <= hist.exposure.shown_hide_ms

\* the auto-hide timer has expired on an overlay that was shown again
\* while it was shown
C2_Witness ==
    /\ hist.op = "auto_hide"
    /\ hist.from = "Visible"
    /\ hist.exposure.shown_at > hist.exposure.left_idle_at
    /\ now = hist.exposure.shown_at + hist.exposure.shown_hide_ms

\* C3 as stated: every return to Idle re-arms the Scheduler from the time
\* of the return, and the fire itself does not re-arm it
C3_Original ==
    [][/\ Lifecycle(overlay) # "Idle" /\ Lifecycle(overlay') = "Idle" =>
             \E d \in Draws(config) :
                 fires_at' = {now + max(1000, config.reminder_interval_ms + d)}
       /\ hist'.op = "trigger_reminder" => fires_at' = {}]_vars

\* C3 amended: the fire callback itself re-arms the Scheduler, from the
\* time of the fire; the return to Idle at the end of Hiding (exit
\* animation finished, or at once for effect "none" on auto-hide expiry)
\* leaves the armed schedule as it is
C3_FireRearmsReturnDoesNot ==
    [][/\ hist'.op = "trigger_reminder" =>
             \E d \in Draws(config) :
                 /\ fires_at' = {now + max(1000, config.reminder_interval_ms + d)}
                 /\ overlay'.next_reminder = now + max(1000, config.reminder_interval_ms + d)
       /\ /\ Lifecycle(overlay) # "Idle" /\ Lifecycle(overlay') = "Idle"
          /\ hist'.op # "mousePressEvent"
          => /\ overlay'.reminder_timer = overlay.reminder_timer
             /\ overlay'.next_reminder = overlay.next_reminder]_vars

\* after a fire and an auto-hide expiry the exit animation has finished:
\* the overlay is Idle and the schedule is the one the fire armed
C3_Witness ==
    /\ hist.op = "cleanup"
    /\ hist.from = "Hiding"
    /\ Lifecycle(overlay) = "Idle"
    /\ hist.arm.replaced = {}
    /\ 0 < hist.arm.at /\ hist.arm.at < now
    /\ hist.exposure.shown_at = hist.arm.at
    /\ fires_at # {}

\* C4: a mouse press on the overlay while it is Entering or Visible starts
\* Hiding (which ends in Idle at once when the effect has no exit
\* animation) and, in the same callback, replaces the pending reminder fire
\* by one armed from the current time with the current configuration
C4_DismissalHidesAndRearms ==
    hist.op = "mousePressEvent" /\ hist.from \in {"Entering", "Visible"} =>
        /\ Lifecycle(overlay) = IF config.entry_animation \in {"fade", "slide", "pop"}
                                THEN "Hiding" ELSE "Idle"
        /\ overlay.auto_hide_timer.pending = {}
        /\ hist.arm.replaced # {}
        /\ \E d \in Draws(config) :
              /\ fires_at = {now + max(1000, config.reminder_interval_ms + d)}
              /\ overlay.next_reminder = now + max(1000, config.reminder_interval_ms + d)

\* a visible overlay was dismissed and is Hiding, with a new schedule
C4_Witness ==
    /\ hist.op = "mousePressEvent"
    /\ hist.from = "Visible"
    /\ Lifecycle(overlay) = "Hiding"
    /\ hist.arm.at = now
    /\ hist.arm.replaced # fires_at

\* C5: there is at most one pending reminder fire, it is the one of the
\* latest arm, and the fire of an arm leaves nothing of it pending
C5_AtMostOnePendingFire ==
    /\ Cardinality(fires_at) <= 1
    /\ fires_at \subseteq {overlay.next_reminder}
    /\ preview.reminder_timer = None
    /\ hist.op = "trigger_reminder" => hist.arm.replaced = {} /\ \A f \in fires_at : f > now

\* a reset has replaced a pending fire by another one
C5_Witness ==
    /\ hist.op \in ResetOps
    /\ hist.arm.replaced # {}
    /\ hist.arm.replaced # fires_at
    /\ Cardinality(fires_at) = 1

\* C6: after a reset at time now the only pending fire is at now + the
\* interval computed from the configuration current at the call, and a
\* reminder fires only at the time the latest arm set
C6_ResetDiscards ==
    [][/\ hist'.op \in ResetOps =>
             \E d \in Draws(config') :
                 /\ fires_at' = {now + max(1000, config'.reminder_interval_ms + d)}
                 /\ overlay'.next_reminder = now + max(1000, config'.reminder_interval_ms + d)
       /\ hist'.op = "trigger_reminder" =>
             /\ fires_at = {now}
             /\ now = hist.arm.at + max(1000, hist.arm.interval + hist.arm.draw)]_vars

\* the fire time a reset discarded has passed without a fire
C6_Witness ==
    /\ hist.op = "advance"
    /\ hist.arm.replaced # {}
    /\ \A d \in hist.arm.replaced : hist.arm.at < d /\ d < now
    /\ \A f \in fires_at : f > now

\* C10: a mouse press while the overlay is Idle starts no exit animation
\* and leaves the schedule unchanged, and a mouse press repeated while the
\* overlay is Hiding leaves the state the first one reached unchanged
C10_DismissIdempotent ==
    [][hist'.op = "mousePressEvent" /\ Lifecycle(overlay) \in {"Idle", "Hiding"} =>
          /\ Lifecycle(overlay') = Lifecycle(overlay)
          /\ overlay'.active_animation = overlay.active_animation
          /\ overlay'.reminder_timer = overlay.reminder_timer
          /\ overlay'.next_reminder = overlay.next_reminder]_vars

\* C7 as stated: for every interval and jitter ceiling 0, arming at time
\* `at` yields fires_at = at + interval
C7_Original ==
    hist.arm.ceiling = 0 =>
        /\ fires_at = {hist.arm.at + hist.arm.interval}
        /\ overlay.next_reminder = hist.arm.at + hist.arm.interval

\* C7 amended: for every interval and jitter ceiling 0, arming at time
\* `at` yields fires_at = at + max(1 s, interval)
C7_FloorNoJitter ==
    hist.arm.ceiling = 0 =>
        /\ fires_at = {hist.arm.at + max(1000, hist.arm.interval)}
        /\ overlay.next_reminder = hist.arm.at + max(1000, hist.arm.interval)

\* a fire has armed the schedule with an interval under the floor
C7_Witness ==
    /\ hist.op = "trigger_reminder"
    /\ hist.arm.ceiling = 0
    /\ hist.arm.interval < 1000
    /\ fires_at = {now + 1000}

\* C8 as stated: for every interval and jitter ceiling J > 0, arming at
\* time `at` yields fires_at within [at + interval, at + interval + J]
C8_Original ==
    hist.arm.ceiling > 0 =>
        \A f \in fires_at \cup {overlay.next_reminder} :
            /\ hist.arm.at + hist.arm.interval <= f
            /\ f <= hist.arm.at + hist.arm.interval + hist.arm.ceiling

\* C8 amended: for every interval and jitter ceiling J > 0, arming at
\* time `at` yields fires_at within
\* [at + max(1 s, interval), at + max(1 s, interval + J)]
C8_FlooredRange ==
    hist.arm.ceiling > 0 =>
        /\ fires_at # {}
        /\ \A f \in fires_at \cup {overlay.next_reminder} :
              /\ hist.arm.at + max(1000, hist.arm.interval) <= f
              /\ f <= hist.arm.at + max(1000, hist.arm.interval + hist.arm.ceiling)

\* a fire has armed the schedule with the largest draw, above the floor
C8_Witness ==
    /\ hist.op = "trigger_reminder"
    /\ hist.arm.ceiling > 0
    /\ hist.arm.draw = hist.arm.ceiling
    /\ hist.arm.interval + hist.arm.ceiling > 1000
    /\ fires_at = {now + hist.arm.interval + hist.arm.ceiling}

\* C9 as stated: the floor is applied to the interval alone, and arming
\* yields fires_at = at + max(1 s, interval) + jitter_draw
C9_Original ==
    /\ fires_at = {hist.arm.at + max(1000, hist.arm.interval) + hist.arm.draw}
    /\ overlay.next_reminder = hist.arm.at + max(1000, hist.arm.interval) + hist.arm.draw

\* C9 amended: the floor is applied to the sum of the interval and the
\* jitter draw, and arming yields
\* fires_at = at + max(1 s, interval + jitter_draw), with jitter_draw in
\* [0, jitter_ceiling] when jitter_ceiling > 0 and 0 otherwise
C9_FloorOnSum ==
    /\ fires_at = {hist.arm.at + max(1000, hist.arm.interval + hist.arm.draw)}
    /\ overlay.next_reminder = hist.arm.at + max(1000, hist.arm.interval + hist.arm.draw)
    /\ hist.arm.draw \in 0..max(0, hist.arm.ceiling)

\* a fire has armed the schedule with an interval under the floor and a
\* draw that lifts the sum above it
C9_Witness ==
    /\ hist.op = "trigger_reminder"
    /\ hist.arm.interval \in 1..999
    /\ hist.arm.draw > 0
    /\ hist.arm.interval + hist.arm.draw > 1000
    /\ fires_at = {now + hist.arm.interval + hist.arm.draw}

\* C11: with no user interaction the auto-hide timer expires once, the
\* auto-hide duration after the overlay was shown, on an overlay that is
\* Entering or Visible, and starts Hiding with the timer stopped; Hiding
\* then ends in Idle, and it ends when the exit animation of the
\* configured effect completes (200 ms fade, 240 ms slide, 200 ms pop)
C11_AutoHideOnceThenIdle ==
    [][/\ hist'.op = "auto_hide" =>
             /\ Lifecycle(overlay) \in {"Entering", "Visible"}
             /\ now = hist.exposure.shown_at + hist.exposure.shown_hide_ms
             /\ overlay'.auto_hide_timer.pending = {}
             /\ Lifecycle(overlay') = IF config.entry_animation \in {"fade", "slide", "pop"}
                                      THEN "Hiding" ELSE "Idle"
       /\ Lifecycle(overlay) = "Hiding" /\ Lifecycle(overlay') # "Hiding" =>
             /\ Lifecycle(overlay') = "Idle"
             /\ hist'.op = "cleanup"
             /\ now = overlay.active_animation.start
                          + exit_duration(config.entry_animation)]_vars

\* C12: an overlay has at most one running animation, the active one: a
\* new run stops the run it replaces, so that only the active run ever
\* completes and has its finalize callback invoked, at its natural end
C12_OneRunCancelledNeverFinalized ==
    [][/\ overlay'.running \subseteq {overlay'.active_animation}
       /\ preview'.running = {}
       /\ hist'.op = "cleanup" =>
             /\ overlay.running = {overlay.active_animation}
             /\ endTime(overlay.active_animation) = now
             /\ overlay'.running = {}]_vars

\* the overlay was shown again while its exit animation ran: the entry
\* animation started now is the only running one
C12_Witness ==
    /\ hist.op \in {"trigger_reminder", "show_overlay", "handle_show_overlay"}
    /\ hist.from = "Hiding"
    /\ Lifecycle(overlay) = "Entering"
    /\ overlay.active_animation.start = now
    /\ overlay.running = {overlay.active_animation}

\* C13 as stated: for every screen geometry, overlay extent, anchor corner
\* and margins the resolved position lies within
\* [screen.x, screen.x + screen.width - overlay.width] x
\* [screen.y, screen.y + screen.height - overlay.height]
C13_Original ==
    hist.op = "position_overlay" =>
        /\ hist.geo.x <= hist.result.x
        /\ hist.result.x <= hist.geo.x + hist.geo.w - hist.width
        /\ hist.geo.y <= hist.result.y
        /\ hist.result.y <= hist.geo.y + hist.geo.h - hist.height

\* C13 amended: for every screen geometry, anchor corner and margins the
\* resolved x lies within [screen.x, screen.x + screen.width - overlay.width]
\* when the overlay is not wider than the screen, and is screen.x when it is
\* wider; the same holds of y with the heights
C13_WithinScreenWhenItFits ==
    hist.op = "position_overlay" =>
        /\ hist.width <= hist.geo.w =>
              /\ hist.geo.x <= hist.result.x
              /\ hist.result.x <= hist.geo.x + hist.geo.w - hist.width
        /\ hist.width > hist.geo.w => hist.result.x = hist.geo.x
        /\ hist.height <= hist.geo.h =>
              /\ hist.geo.y <= hist.result.y
              /\ hist.result.y <= hist.geo.y + hist.geo.h - hist.height
        /\ hist.height > hist.geo.h => hist.result.y = hist.geo.y

\* a right-anchored overlay that fits, with a margin wider than the
\* screen, is placed at the screen's left edge; it is taller than the
\* screen and is placed at the screen's top edge
C13_Witness ==
    /\ hist.op = "position_overlay"
    /\ hist.position = "bottom_right"
    /\ hist.width <= hist.geo.w
    /\ hist.margin_x > hist.geo.w
    /\ hist.result.x = hist.geo.x
    /\ hist.height > hist.geo.h
    /\ hist.result.y = hist.geo.y

\* C14: when the overlay plus the margins (>= 0) fits on the screen, a
\* right-anchored overlay has its right edge margin_x from the screen's
\* right edge and a left-anchored one its left edge margin_x from the
\* screen's left edge, and likewise for top and bottom with margin_y;
\* screen (0,0,1920,1080), overlay (360,180), bottom-right, margins
\* (16,16) gives (1544, 884)
C14_MarginFromAnchoredEdge ==
    hist.op = "position_overlay" =>
        /\ hist.margin_x >= 0 /\ hist.width + hist.margin_x <= hist.geo.w =>
              IF hist.position \in {"bottom_right", "top_right"}
              THEN hist.result.x + hist.width = hist.geo.x + hist.geo.w - hist.margin_x
              ELSE hist.result.x = hist.geo.x + hist.margin_x
        /\ hist.margin_y >= 0 /\ hist.height + hist.margin_y <= hist.geo.h =>
              IF hist.position \in {"bottom_right", "bottom_left"}
              THEN hist.result.y + hist.height = hist.geo.y + hist.geo.h - hist.margin_y
              ELSE hist.result.y = hist.geo.y + hist.margin_y
        /\ /\ hist.geo = QRect(0, 0, 1920, 1080)
           /\ hist.width = 360 /\ hist.height = 180
           /\ hist.position = "bottom_right"
           /\ hist.margin_x = 16 /\ hist.margin_y = 16
           => hist.result = [x |-> 1544, y |-> 884]

\* the overlay of the default configuration was placed on the primary
\* monitor
C14_Witness ==
    /\ hist.op = "position_overlay"
    /\ hist.geo = QRect(0, 0, 1920, 1080)
    /\ hist.width = 360 /\ hist.height = 180
    /\ hist.position = "bottom_right"
    /\ hist.margin_x = 16 /\ hist.margin_y = 16
    /\ hist.result = [x |-> 1544, y |-> 884]

\* C15: for the non-preview overlay a configured identifier other than
\* "auto" that is the name of a monitor selects that monitor; otherwise
\* the monitor under the pointer is selected; otherwise the primary one
C15_MonitorPriority ==
    hist.op = "target_screen" =>
        IF hist.monitor_id # "auto" /\ hist.monitor_id \in {sc.name : sc \in screens}
        THEN hist.result \in screens /\ hist.result.name = hist.monitor_id
        ELSE IF hist.cursor # None THEN hist.result = hist.cursor
        ELSE hist.result = primaryScreen

\* the configured monitor was selected while the pointer was on another
C15_Witness ==
    /\ hist.op = "target_screen"
    /\ hist.monitor_id = "DISPLAY2"
    /\ hist.cursor = primaryScreen
    /\ hist.result = secondScreen

\* C16: the countdown text is "now" for a remaining time of zero or less;
\* otherwise it has the hours iff they are nonzero, the minutes iff the
\* hours or the minutes are nonzero and the seconds iff the hours are zero
\* (3 661 000 ms gives "1h 1m"); it is never empty
C16_CountdownText ==
    hist.op = "format_short_duration" =>
        LET ms == hist.milliseconds
            h == ms \div 3600000
            m == (ms \div 60000) % 60
            sec == (ms \div 1000) % 60
        IN /\ hist.result # ""
           /\ ms <= 0 => hist.result = "now"
           /\ ms > 0 =>
                 hist.result =
                     join((IF h # 0 THEN <<ToString(h) \o "h">> ELSE <<>>)
                          \o (IF h # 0 \/ m # 0 THEN <<ToString(m) \o "m">> ELSE <<>>)
                          \o (IF h = 0 THEN <<ToString(sec) \o "s">> ELSE <<>>))
           /\ ms = 3661000 => hist.result = "1h 1m"
           /\ ms = 0 => hist.result = "now"

\* one hour, one minute and one second were rendered without the second
C16_Witness ==
    /\ hist.op = "format_short_duration"
    /\ hist.milliseconds = 3661000
    /\ hist.result = "1h 1m"

\* C17: format_interval renders the whole hours and the whole minutes of
\* the interval, leaves out a component that is zero, and gives "less
\* than a minute" when both are zero, as for a negative interval;
\* 2 700 000 ms gives "45 minutes"
C17_IntervalText ==
    hist.op = "format_interval" =>
        LET ms == max(0, hist.milliseconds)
            h == ms \div 3600000
            m == (ms \div 60000) % 60
        IN /\ h = 0 /\ m = 0 => hist.result = "less than a minute"
           /\ h # 0 /\ m = 0 =>
                 hist.result = ToString(h) \o (IF h = 1 THEN " hour" ELSE " hours")
           /\ h = 0 /\ m # 0 =>
                 hist.result = ToString(m) \o (IF m = 1 THEN " minute" ELSE " minutes")
           /\ h # 0 /\ m # 0 =>
                 hist.result = ToString(h) \o (IF h = 1 THEN " hour" ELSE " hours") \o " "
                               \o ToString(m) \o (IF m = 1 THEN " minute" ELSE " minutes")
           /\ hist.milliseconds = 2700000 => hist.result = "45 minutes"

\* an interval of whole hours was rendered without minutes
C17_Witness ==
    /\ hist.op = "format_interval"
    /\ hist.milliseconds = 2 * 3600000 + 59 * 1000 + 999
    /\ hist.result = "2 hours"

\* C18: whenever the reminder timer of the overlay is armed, the stored
\* next-reminder time is the time at which the timer fires, and the
\* remaining time an update of the countdown reports is
\* max(0, fires_at - now)
C18_CountdownTargetIsFireTime ==
    /\ fires_at # {} => fires_at = {overlay.next_reminder}
    /\ hist.op \in {"update_countdown", "trigger_reminder"} \cup ResetOps =>
          /\ fires_at # {}
          /\ \A f \in fires_at :
                overlay.countdown_label = [text |-> "remaining", remaining |-> max(0, f - now)]

\* the countdown was refreshed between two fires, under an interval below
\* the floor
C18_Witness ==
    /\ hist.op = "update_countdown"
    /\ hist.arm.interval < 1000
    /\ fires_at = {hist.arm.at + 1000}
    /\ overlay.countdown_label.remaining = hist.arm.at + 1000 - now
    /\ overlay.countdown_label.remaining > 0

\* C19: the preview has no reminder timer, no auto-hide timer and no
\* countdown timer; it is visible in every state, whatever callbacks,
\* mouse presses and applied changes there were, and schedule_next_reminder,
\* reset_reminder_timer, trigger_reminder and mousePressEvent leave it as
\* it is
C19_PreviewStaysShown ==
    /\ preview.visible
    /\ Lifecycle(preview) = "Visible"
    /\ preview.reminder_timer = None
    /\ preview.auto_hide_timer = None
    /\ preview.countdown_timer = None
    /\ \A draw \in Draws(config), cursor \in CursorScreens :
          /\ schedule_next_reminder(preview, config, now, draw) = preview
          /\ reset_reminder_timer(preview, config, now, draw) = preview
          /\ trigger_reminder(preview, config, now, draw, cursor) = preview
          /\ mousePressEvent(preview, config, now, draw) = preview

\* the preview was pressed after a change was applied, and its sprite
\* timer runs
C19_Witness ==
    /\ hist.op = "preview_mousePressEvent"
    /\ inputs = 2
    /\ config # BaseConfig
    /\ config.animation_enabled
    /\ preview.visible
    /\ preview.animation_timer.pending # {}

\* C20 as stated: applying a change of the interval or of the jitter
\* while a schedule is armed leaves the pending fire as it is
C20_Original ==
    [][/\ hist'.op = "apply_changes"
       /\ \/ config'.reminder_interval_ms # config.reminder_interval_ms
          \/ config'.random_offset_ms # config.random_offset_ms
       /\ fires_at # {}
       => fires_at' = fires_at]_vars

\* C20 amended: applying a change of the interval or of the jitter while
\* a schedule is armed discards the pending fire and arms the schedule at
\* once, from the time of the change, with the new interval and jitter
C20_ChangeRearmsAtOnce ==
    [][/\ hist'.op = "apply_changes"
       /\ \/ config'.reminder_interval_ms # config.reminder_interval_ms
          \/ config'.random_offset_ms # config.random_offset_ms
       /\ fires_at # {}
       => /\ hist'.arm.replaced = fires_at
          /\ hist'.arm.at = now
          /\ hist'.arm.interval = config'.reminder_interval_ms
          /\ hist'.arm.ceiling = config'.random_offset_ms
          /\ \E d \in 0..config'.random_offset_ms :
                /\ fires_at' = {now + max(1000, config'.reminder_interval_ms + d)}
                /\ overlay'.next_reminder
                       = now + max(1000, config'.reminder_interval_ms + d)]_vars

\* a change of the interval was applied while a fire was pending: the
\* fire now pending is another one, the new interval after the change
C20_Witness ==
    /\ hist.op = "apply_changes"
    /\ now > 0
    /\ hist.arm.interval = 200 * 600
    /\ hist.arm.replaced # {}
    /\ \A f \in hist.arm.replaced : f < now + 200 * 600
    /\ fires_at = {now + 200 * 600}

\* the fields read as bool and as str, a well-formed value of a field, and
\* the value it stands for
C21_BoolFields == {"show_preview_on_launch", "countdown_enabled", "animation_enabled"}

C21_StrFields == {"position", "entry_animation", "monitor_id"}

C21_WellFormed(key, val) ==
    IF key \in {"margin_x", "margin_y", "reminder_interval_ms", "auto_hide_ms",
                "animation_interval_ms", "preview_delay_ms", "random_offset_ms"}
    THEN val.t = "int" /\ val.i >= 0
    ELSE IF key = "overlay_width" THEN val.t = "int" /\ val.i >= 180
    ELSE IF key = "overlay_height" THEN val.t = "int" /\ val.i >= 120
    ELSE IF key \in C21_BoolFields THEN val.t = "bool"
    ELSE IF key = "position" THEN val.t = "str" /\ val.s \in Positions
    ELSE IF key = "entry_animation" THEN val.t = "str" /\ val.s \in {"fade", "slide", "pop", "none"}
    ELSE IF key = "monitor_id" THEN val.t = "str"
    ELSE val.t = "float" /\ val.lit = "" /\ 0 <= val.i /\ val.i <= 100

C21_Supplied(key, val) ==
    IF key \in C21_BoolFields THEN val.i = 1
    ELSE IF key \in C21_StrFields THEN val.s
    ELSE val.i

C21_ChannelsWellFormed(items) ==
    \A k \in DOMAIN items : items[k].t = "int" /\ 0 <= items[k].i /\ items[k].i <= 255

\* C21: loading defaults each malformed field on its own: a value of the
\* wrong type or out of the field's range yields the field's default, a
\* well-formed value is kept, and loading never fails as a whole.
C21_MalformedFieldsDefaulted ==
    /\ hist.op = "from_dict" =>
          /\ hist.result.exc = ""
          /\ \A key \in DOMAIN AppConfig :
                hist.result.config[key] =
                    IF hist.data.dict /\ key \in DOMAIN hist.data.items
                       /\ C21_WellFormed(key, hist.data.items[key])
                    THEN C21_Supplied(key, hist.data.items[key])
                    ELSE AppConfig[key]
    /\ hist.op = "color_from_dict" =>
          /\ hist.result.exc = ""
          /\ hist.result.color =
                IF hist.data.dict /\ C21_ChannelsWellFormed(hist.data.items)
                THEN [k \in {"r", "g", "b", "a"} |->
                        IF k \in DOMAIN hist.data.items THEN hist.data.items[k].i
                        ELSE hist.fallback[k]]
                ELSE hist.fallback

\* the configuration invariant: durations >= 0, margins >= 0, overlay
\* extent at least the floor of 180 x 120
C22_Valid(cfg) ==
    /\ cfg.reminder_interval_ms >= 0 /\ cfg.random_offset_ms >= 0
    /\ cfg.auto_hide_ms >= 0 /\ cfg.animation_interval_ms >= 0
    /\ cfg.margin_x >= 0 /\ cfg.margin_y >= 0
    /\ cfg.overlay_width >= 180 /\ cfg.overlay_height >= 120

\* C22: every configuration snapshot the engine uses satisfies the
\* configuration invariant: after loading, after the command-line
\* overrides and after every apply-changes.
C22_ConfigInvariant ==
    /\ hist.op \in {"from_dict", "main"} /\ hist.result.exc = "" => C22_Valid(hist.result.config)
    /\ hist.op = "apply_changes_config" => C22_Valid(hist.result)

\* a frame file that loads, and a movie file that is valid
C23_FrameLoads(disk) ==
    disk.dir /\ \E i \in 1..Len(disk.frames) :
                  /\ disk.frames[i] = "valid"
                  /\ \A j \in 2..i : disk.frames[j] # "missing"

C23_MovieExists(disk) ==
    \/ disk.dir /\ \E c \in 1..3 : disk.movies[c] = "valid"
    \/ disk.default_gif = "valid"

\* C23: asset resolution never fails and has a strict priority: the
\* frame sequence and no movie if a frame loads, else the movie if a valid
\* movie file exists, else the drawn placeholder.
C23_AssetPriority ==
    hist.op = "load_assets" =>
        IF C23_FrameLoads(hist.disk)
        THEN /\ hist.result.frame_pixmaps > 0
             /\ hist.result.picture = [kind |-> "frame", index |-> 0]
             /\ ~hist.result.fallback_movie /\ ~hist.result.movie_running
        ELSE IF C23_MovieExists(hist.disk)
        THEN /\ hist.result.frame_pixmaps = 0
             /\ hist.result.picture.kind = "movie" /\ hist.result.movie_running
        ELSE /\ hist.result.frame_pixmaps = 0 /\ ~hist.result.fallback_movie
             /\ hist.result.picture.kind = "fallback"

C23_Witness ==
    /\ hist.op = "load_assets"
    /\ hist.disk.dir /\ hist.disk.frames = <<"null", "missing", "valid">>
    /\ hist.disk.movies = <<"invalid", "valid", "missing">>
    /\ hist.result.picture.kind = "movie"

\* C24: a mouse press while the overlay is Entering is honoured: the entry
\* run stops without its completion callback, the exit animation starts
\* in the same callback and is the only running one, and the Hiding that a
\* dismissal began ends in Idle at the end of the exit run, unless a show
\* command (tray, second instance, launch preview) shows the overlay again
C24_DismissalWhileEntering ==
    [][/\ hist'.op = "mousePressEvent" /\ Lifecycle(overlay) = "Entering"
             /\ exit_animated(overlay, config) =>
             /\ Lifecycle(overlay') = "Hiding"
             /\ overlay.active_animation \notin overlay'.running
             /\ overlay'.running = {overlay'.active_animation}
             /\ overlay'.active_animation.start = now
             /\ overlay'.visible
       /\ Lifecycle(overlay) = "Hiding" /\ overlay.active_animation.start = hist.arm.at =>
             /\ now <= endTime(overlay.active_animation)
             /\ Lifecycle(overlay') # "Hiding" =>
                   \/ /\ Lifecycle(overlay') = "Idle"
                      /\ hist'.op = "cleanup"
                      /\ now = endTime(overlay.active_animation)
                   \/ hist'.op \in {"show_overlay", "handle_show_overlay", "launch_preview"}]_vars

\* the overlay was dismissed in the middle of its entry animation
C24_Witness ==
    /\ hist.op = "mousePressEvent"
    /\ hist.from = "Entering"
    /\ Lifecycle(overlay) = "Hiding"
    /\ overlay.active_animation.start = now
    /\ overlay.windowOpacity < config.overlay_opacity

\* C25: every transition of the overlay into Hiding (auto-hide expiry or
\* dismissal) stops the sprite tick, the movie and the auto-hide timer and
\* cancels a running entry animation before the exit animation starts, and
\* the sprite tick then stays stopped until the overlay is shown again
C25_HidingStopsSpriteTick ==
    [][/\ hist'.op \in {"auto_hide", "mousePressEvent"} /\ Lifecycle(overlay') = "Hiding" =>
             /\ overlay'.animation_timer.pending = {}
             /\ ~overlay'.movie_running
             /\ overlay'.auto_hide_timer.pending = {}
             /\ overlay'.running = {overlay'.active_animation}
       /\ Lifecycle(overlay) \in {"Hiding", "Idle"} /\ overlay.animation_timer.pending = {}
             /\ hist'.op \notin {"trigger_reminder", "show_overlay", "handle_show_overlay",
                                 "launch_preview"} =>
             overlay'.animation_timer.pending = {}]_vars

\* C26: with an effect other than fade, slide and pop, hiding the overlay
\* (auto-hide expiry or dismissal) hides it within the same callback with
\* no exit run, and showing it sets the target opacity at once with no
\* entry run
C26_NoEffectSnaps ==
    [][config'.entry_animation \notin {"fade", "slide", "pop"} =>
          /\ hist'.op \in {"auto_hide", "mousePressEvent"} =>
                /\ Lifecycle(overlay') = "Idle"
                /\ overlay'.running = {} /\ overlay'.active_animation = None
          /\ hist'.op \in {"trigger_reminder", "show_overlay", "handle_show_overlay",
                            "launch_preview"} =>
                /\ Lifecycle(overlay') = "Visible"
                /\ overlay'.windowOpacity = config'.overlay_opacity
                /\ overlay'.running = {} /\ overlay'.active_animation = None]_vars

\* an overlay shown without effect was hidden by the auto-hide expiry
C26_Witness ==
    /\ config.entry_animation = "none"
    /\ hist.op = "auto_hide" /\ hist.from = "Visible"
    /\ hist.exposure.shown_at < now
    /\ Lifecycle(overlay) = "Idle"

\* C27: a sprite tick with animation enabled and n > 0 frames sets the
\* frame index to (index + 1) mod n and displays that frame; the index is
\* always within 0 .. n - 1, and a show restarts the cycle at frame 0
C27_FrameIndexCycles ==
    [][/\ hist'.op = "advance_animation" /\ config.animation_enabled
             /\ overlay.frame_pixmaps > 0 =>
             /\ overlay'.animation_index = (overlay.animation_index + 1) % overlay.frame_pixmaps
             /\ overlay'.picture = [kind |-> "frame", index |-> overlay'.animation_index]
       /\ hist'.op = "preview_advance_animation" /\ config.animation_enabled
             /\ preview.frame_pixmaps > 0 =>
             /\ preview'.animation_index = (preview.animation_index + 1) % preview.frame_pixmaps
             /\ preview'.picture = [kind |-> "frame", index |-> preview'.animation_index]
       /\ hist'.op \in {"trigger_reminder", "show_overlay", "handle_show_overlay",
                         "launch_preview"} /\ config'.animation_enabled =>
             overlay'.animation_index = 0
       /\ \A o \in {overlay', preview'} :
             o.frame_pixmaps > 0 => 0 <= o.animation_index /\ o.animation_index < o.frame_pixmaps]_vars

\* a tick took the overlay from its last frame back to frame 0
C27_Witness ==
    /\ hist.op = "advance_animation"
    /\ config.animation_enabled
    /\ overlay.frame_pixmaps = 2
    /\ overlay.animation_index = 0
    /\ overlay.picture = [kind |-> "frame", index |-> 0]
    /\ hist.exposure.shown_at < now

\* C28: enabling or disabling animation toggles only whether the sprite
\* tick fires: an apply-changes that changes animation_enabled alone, and a
\* show with animation disabled, leave the image displayed (the current
\* frame of the loaded frame set) as it was
C28_ToggleKeepsImage ==
    [][/\ hist'.op = "apply_changes"
             /\ config' = [config EXCEPT !.animation_enabled = ~config.animation_enabled] =>
             /\ overlay'.picture = overlay.picture
             /\ preview'.picture = preview.picture
       /\ hist'.op \in {"trigger_reminder", "show_overlay", "handle_show_overlay",
                         "launch_preview"}
             /\ ~config'.animation_enabled /\ overlay.frame_pixmaps > 0 =>
             overlay'.picture = overlay.picture]_vars

\* C29: whenever the sprite timer of the overlay or of the preview is
\* armed, its period is at least 10 ms (the configured period raised to
\* 10 ms), whatever the configured period, 0 and negative values included
C29_SpritePeriodFloor ==
    \A o \in {overlay, preview} :
        QTimer_isActive(o.animation_timer) =>
            /\ o.animation_timer.interval >= 10
            /\ o.animation_timer.interval = max(10, config.animation_interval_ms)
            /\ \A d \in o.animation_timer.pending : d <= now + o.animation_timer.interval

\* with a configured period of 0 the overlay and the preview tick every 10 ms
C29_Witness ==
    /\ config.animation_interval_ms = 0
    /\ hist.op = "advance_animation"
    /\ now = 20
    /\ overlay.animation_timer.pending = {30}
    /\ QTimer_isActive(preview.animation_timer)
    /\ preview.animation_timer.interval = 10

\* C30: re-arming or stopping a timer cancels its pending callback: the
\* auto-hide timer and the reminder timer have at most one pending timeout,
\* a stop leaves none, an auto-hide callback is the one armed by the latest
\* show and runs on an overlay not hidden since, and a reminder fire is the
\* one armed by the latest arming
C30_LatestArmingOnly ==
    [][/\ Cardinality(overlay'.auto_hide_timer.pending) <= 1
       /\ Cardinality(overlay'.reminder_timer.pending) <= 1
       /\ hist'.op = "auto_hide" =>
             /\ now = hist.exposure.shown_at + hist.exposure.shown_hide_ms
             /\ overlay.auto_hide_timer.pending = {now}
             /\ Lifecycle(overlay) \in {"Entering", "Visible"}
             /\ overlay'.auto_hide_timer.pending = {}
       /\ hist'.op = "mousePressEvent" => overlay'.auto_hide_timer.pending = {}
       /\ hist'.op \in {"trigger_reminder", "show_overlay", "handle_show_overlay",
                         "launch_preview"} =>
             overlay'.auto_hide_timer.pending = {now + config.auto_hide_ms}
       /\ hist'.op = "trigger_reminder" =>
             /\ overlay.reminder_timer.pending = {now}
             /\ now = overlay.next_reminder
             /\ now = hist.arm.at + max(1000, hist.arm.interval + hist.arm.draw)
             /\ hist'.arm.replaced = {}
       /\ hist'.op \in ResetOps =>
             overlay'.reminder_timer.pending =
                 {now + max(1000, hist'.arm.interval + hist'.arm.draw)}]_vars

\* the overlay was shown again before the auto-hide armed by the first
\* show was due, and the auto-hide armed by the second show ran
C30_Witness ==
    /\ hist.op = "auto_hide"
    /\ hist.exposure.left_idle_at < hist.exposure.shown_at
    /\ hist.exposure.shown_at < hist.exposure.left_idle_at + hist.exposure.left_idle_hide_ms
    /\ now = hist.exposure.shown_at + hist.exposure.shown_hide_ms

\* C31: the overlay's shown/hidden status changes only on a scheduler
\* fire, a show command, the auto-hide expiry, a dismissal and the end of
\* the exit run they start; apply-changes (in any lifecycle state), the
\* countdown tick, the sprite ticks and the completion of the entry
\* animation leave it unchanged and neither arm, restart nor stop the
\* auto-hide timer
C31_OnlyShowAndHideChangeLifecycle ==
    [][/\ \/ hist'.op \in {"apply_changes", "update_countdown", "advance_animation",
                             "preview_advance_animation", "preview_mousePressEvent", "advance"}
          \/ hist'.op = "cleanup" /\ Lifecycle(overlay) = "Entering"
          => /\ overlay'.visible = overlay.visible
             /\ overlay'.auto_hide_timer = overlay.auto_hide_timer
             /\ Lifecycle(overlay') = IF hist'.op = "cleanup" THEN "Visible" ELSE Lifecycle(overlay)
       /\ overlay'.visible # overlay.visible =>
             \/ hist'.op \in {"trigger_reminder", "show_overlay", "handle_show_overlay",
                               "launch_preview", "auto_hide", "mousePressEvent"}
             \/ hist'.op = "cleanup" /\ Lifecycle(overlay) = "Hiding"]_vars

\* the settings were applied while the overlay was Visible, and the
\* auto-hide armed by the show is still the pending one
C31_Witness ==
    /\ hist.op = "apply_changes" /\ hist.from = "Visible"
    /\ Lifecycle(overlay) = "Visible"
    /\ hist.exposure.shown_at < now
    /\ overlay.auto_hide_timer.pending = {hist.exposure.shown_at + hist.exposure.shown_hide_ms}
    /\ config.auto_hide_ms # hist.exposure.shown_hide_ms

\* C32: on a screen narrower than the overlay position resolution still
\* gives a position, with the overlay's left edge at the screen's x; on a
\* screen lower than the overlay, with its top edge at the screen's y; the
\* overlay keeps its width and height, which are not negative
C32_SmallScreenAlignsOrigin ==
    hist.op = "position_overlay" =>
        /\ hist.width > hist.geo.w => hist.moved.x = hist.geo.x
        /\ hist.height > hist.geo.h => hist.moved.y = hist.geo.y
        /\ hist.moved.w = hist.width /\ hist.moved.h = hist.height
        /\ hist.moved.w >= 0 /\ hist.moved.h >= 0

\* an overlay wider and higher than the screen, anchored bottom right
C32_Witness ==
    /\ hist.op = "position_overlay"
    /\ hist.position = "bottom_right"
    /\ hist.width > hist.geo.w /\ hist.height > hist.geo.h
    /\ hist.margin_x > 0
    /\ hist.moved = QRect(hist.geo.x, hist.geo.y, hist.width, hist.height)

\* C33: whatever the interval (zero and negative included) and the jitter
\* ceiling, every arming of the reminder timer schedules the fire at least
\* 1000 ms after the arming time, and a reminder fire is at least 1000 ms
\* after the fire before it
C33_FiresOneSecondApart ==
    [][/\ \A f \in fires_at : f >= hist.arm.at + 1000
       /\ \A f \in fires_at' : f >= hist'.arm.at + 1000
       /\ hist'.arm # hist.arm => hist'.arm.at = now /\ fires_at' # {}
       /\ hist'.op = "trigger_reminder" =>
             /\ now >= hist.arm.at + 1000
             /\ hist'.arm.at = now
             /\ \A f \in fires_at' : f >= now + 1000]_vars

\* with a negative interval the second fire came 1000 ms after the first
C33_Witness ==
    /\ config.reminder_interval_ms < 0
    /\ hist.op = "trigger_reminder"
    /\ now = 2000
    /\ hist.arm.at = 2000
    /\ fires_at = {3000}

\* C34: after startup the reminder timer of the overlay is armed in every
\* state between callbacks; the armed timeout stays as it is until it is
\* delivered or a reset replaces it, time does not pass it, and it is
\* delivered at the instant it is due, so that without a reset the fire
\* occurs again
C34_AlwaysArmedFiresAgain ==
    [][/\ fires_at # {} /\ fires_at' # {}
       /\ \A f \in fires_at' : f >= now'
       /\ hist'.op \notin {"trigger_reminder"} \cup ResetOps => fires_at' = fires_at
       /\ hist'.op = "trigger_reminder" =>
             /\ fires_at = {now}
             /\ \A f \in fires_at' : f > now]_vars

\* the second fire of a run, re-armed
C34_Witness ==
    /\ hist.op = "trigger_reminder"
    /\ hist.arm.at = now /\ now >= 2000
    /\ fires_at # {} /\ \A f \in fires_at : f > now

C36_ShownHasPendingAutoHide ==
    /\ QTimer_isActive(overlay.auto_hide_timer) => overlay.visible
    /\ overlay.visible /\ Lifecycle(overlay) # "Hiding" =>
          /\ QTimer_isActive(overlay.auto_hide_timer)
          /\ \A a \in overlay.running : a.phase = "entry"

\* the entry animation has completed and the auto-hide armed by the show
\* is pending
C36_Witness ==
    /\ hist.op = "cleanup"
    /\ Lifecycle(overlay) = "Visible"
    /\ overlay.auto_hide_timer.pending = {hist.exposure.shown_at + hist.exposure.shown_hide_ms}
    /\ hist.exposure.shown_at < now

\* C37: whenever the overlay reaches Idle at the end of an exit animation
\* the window opacity is the configured overlay opacity and the geometry
\* is the one the overlay had when shown (the resolved placement and the
\* full size), whatever the interleaving of dismissals, auto-hide expiry
\* and shows, a dismissal during the exit animation included
C37_ExitLeavesNoTransientValue ==
    [][hist'.op = "cleanup" /\ Lifecycle(overlay) = "Hiding" /\ Lifecycle(overlay') = "Idle" =>
          /\ overlay'.windowOpacity = config.overlay_opacity
          /\ overlay'.geometry =
                position_overlay(apply_config_size(overlay', config), config,
                                 primaryScreen).geometry]_vars

\* the reminder timer and the auto-hide timer of the shown overlay are
\* both due
C38_BothDue ==
    /\ Lifecycle(overlay) = "Visible"
    /\ \E d \in overlay.reminder_timer.pending : d <= now
    /\ \E d \in overlay.auto_hide_timer.pending : d <= now

\* the event loop delivers the timeout of the reminder timer of o, if due
C38_Fire(o, draw) ==
    IF \E d \in o.reminder_timer.pending : d <= now
    THEN LET d == CHOOSE d \in o.reminder_timer.pending : d <= now
         IN trigger_reminder([o EXCEPT !.reminder_timer = QTimer_timeout(@, d)],
                             config, now, draw, primaryScreen)
    ELSE o

\* the event loop delivers the timeout of the auto-hide timer of o, if due
C38_Expire(o) ==
    IF \E d \in o.auto_hide_timer.pending : d <= now
    THEN LET d == CHOOSE d \in o.auto_hide_timer.pending : d <= now
         IN hide_overlay([o EXCEPT !.auto_hide_timer = QTimer_timeout(@, d)], config, now)
    ELSE o

\* the state the claim describes: on screen, the auto-hide timer armed
\* from now and not due, no exit animation running, one timeout of the
\* schedule pending
C38_Settled(o) ==
    /\ o.visible
    /\ o.auto_hide_timer.pending = {now + config.auto_hide_ms}
    /\ \A a \in o.running : a.phase # "exit"
    /\ o.active_animation # None => o.active_animation.phase # "exit"
    /\ Cardinality(o.reminder_timer.pending) = 1

\* C38: when a fire of the scheduler and the expiry of the auto-hide
\* timer are due at the same time on a Visible overlay, the fire first
\* (which cancels the expiry) and the expiry first (followed by the
\* fire) lead to the same state of the overlay: on screen, auto-hide
\* timer freshly armed, no exit animation pending, one schedule armed
C38_BothOrdersAgree ==
    [][C38_BothDue =>
          /\ hist'.op = "trigger_reminder" =>
                /\ C38_Settled(overlay')
                /\ C38_Expire(overlay') = overlay'
                /\ overlay' = C38_Fire(C38_Expire(overlay), hist'.arm.draw)
          /\ hist'.op = "auto_hide" =>
                /\ \E d \in overlay'.reminder_timer.pending : d <= now
                /\ \A draw \in Draws(config) :
                      /\ C38_Settled(C38_Fire(overlay', draw))
                      /\ C38_Fire(overlay', draw) = C38_Fire(overlay, draw)]_vars

\* both orders have been taken: the fire came after the expiry of the
\* same instant and cancelled the exit animation, on an overlay whose
\* effect has one
C38_Witness ==
    /\ hist.op = "trigger_reminder"
    /\ hist.from = "Hiding"
    /\ hist.arm.at = now
    /\ hist.exposure.shown_at = now
    /\ Lifecycle(overlay) = "Entering"
    /\ C38_Settled(overlay)

\* C39: show_overlay as called from the tray menu and from the launch
\* preview leaves the reminder schedule as it is: the time of the next
\* fire and the armed timer after the call are those before it; the show
\* button of the settings window also resets the schedule, which then
\* counts from the press
C39_ShowNowKeepsSchedule ==
    [][/\ hist'.op \in {"show_overlay", "launch_preview"} =>
             /\ overlay'.next_reminder = overlay.next_reminder
             /\ overlay'.reminder_timer = overlay.reminder_timer
       /\ hist'.op = "handle_show_overlay" =>
             /\ overlay'.next_reminder = now + next_interval_ms(config, hist'.arm.draw)
             /\ overlay'.reminder_timer.pending = {overlay'.next_reminder}]_vars

\* the tray command has shown the overlay some time after the schedule
\* was armed, and the schedule still fires when it was to fire, sooner
\* than any schedule armed at the show could
C39_Witness ==
    /\ hist.op = "show_overlay"
    /\ hist.exposure.shown_at = now
    /\ hist.arm.at < now
    /\ overlay.visible
    /\ overlay.reminder_timer.pending = {overlay.next_reminder}
    /\ overlay.next_reminder < now + 1000
====
